---- MODULE Spec2Model ----
(***************************************************************************)
(* Sensor-to-application frame delivery core of librealsense:              *)
(*   src/src/sensor.cpp  (sensor_base, uvc_sensor, hid_sensor)             *)
(*   src/src/source.cpp  (frame_source, frame_queue_size)                  *)
(*                                                                         *)
(* One raw sensor instance (UVC or HID flavour, fixed at construction),    *)
(* its frame source, its power reference counter, one transport callback   *)
(* thread, and the configuration thread calling open/close/start/stop.     *)
(***************************************************************************)
EXTENDS Integers, Sequences, FiniteSets, TLC

----------------------------------------------------------------------------
(* Bounds of the model *)

\* longest request vector handed to open()
MaxReq == 2
\* frame arrivals stop once this many frames are live in the pools
MaxLive == 1
\* the count of power commands in one period stops here
MaxCmd == 2
\* threads taking power tokens in SpecPower
NumThreads == 2
\* extension units registered with register_xu on the UVC sensor
NumXus == 1

\* the resolution of the float values given to an option: 1/FloatUnit
FloatUnit == 2
\* raw sensor instances of one device in SpecLock
NumSensors == 2

(* Program constants *)

\* option_range{ 0, 32, 1, 16 } of RS2_OPTION_FRAMES_QUEUE_SIZE
QueueRangeMin == 0
QueueRangeMax == 32
QueueRangeStep == 1
QueueRangeDef == 16
\* uint32_t gyro_fps = -1: the value no requested frame rate takes
NoFps == -1

----------------------------------------------------------------------------
(* Stream profiles *)

Min(a, b) == IF a < b THEN a ELSE b

Streams == {"DEPTH", "GYRO", "ACCEL"}
Profiles == {[stream |-> "DEPTH", fps |-> 100], [stream |-> "GYRO", fps |-> 100],
             [stream |-> "GYRO", fps |-> 200], [stream |-> "ACCEL", fps |-> 100]}
NoProfile == [stream |-> "NONE", fps |-> 0]

Range(s) == {s[i] : i \in DOMAIN s}

RECURSIVE SeqsUpTo(_, _)
SeqsUpTo(S, n) ==
    IF n = 0 THEN {<<>>}
    ELSE LET shorter == SeqsUpTo(S, n - 1)
         IN shorter \cup {Append(q, x) : q \in {r \in shorter : Len(r) = n - 1}, x \in S}

\* the request vectors the application passes to open()
Requests == SeqsUpTo(Profiles, MaxReq)

\* the user frame callbacks passed to start()
Callbacks == {"cb1", "cb2"}

\* rs2_extension frame types that frame_source::init creates pools for
FrameTypes == {"VIDEO", "COMPOSITE", "POINTS", "DEPTH_FRAME", "DISPARITY", "MOTION", "POSE"}

\* frame_source::stream_to_frame_types
stream_to_frame_types(stream) ==
    CASE stream = "DEPTH" -> "DEPTH_FRAME"
      [] stream \in {"ACCEL", "GYRO"} -> "MOTION"
      [] OTHER -> "VIDEO"

----------------------------------------------------------------------------
(* Events a handler produces, in program order *)

Ev(e) == [e |-> e, p |-> NoProfile]
EvP(e, p) == [e |-> e, p |-> p]

RECURSIVE MapSeq(_, _)
MapSeq(e, s) == IF s = <<>> THEN <<>> ELSE <<EvP(e, Head(s))>> \o MapSeq(e, Tail(s))

HasEvent(log, e) == \E i \in DOMAIN log : log[i].e = e

----------------------------------------------------------------------------
(* uvc_sensor: request validation *)

\* std::map<rs2_stream, uint32_t> requests_map: a later request of the same
\* stream type overwrites the frame rate of an earlier one
requests_map(requests) ==
    [s \in {requests[i].stream : i \in DOMAIN requests} |->
        LET last == CHOOSE i \in DOMAIN requests :
                        /\ requests[i].stream = s
                        /\ \A j \in DOMAIN requests : requests[j].stream = s => j <= i
        IN requests[last].fps]

\* variant: only the duplicate-stream test, no GYRO / ACCEL rate test
verify_NoRateCheck(requests) ==
    IF Cardinality(DOMAIN requests_map(requests)) < Len(requests)
    THEN "config_error" ELSE "ok"

\* uvc_sensor::verify_supported_requests
verify_supported_requests(requests) ==
    LET m == requests_map(requests)
        gyro_fps == IF "GYRO" \in DOMAIN m THEN m["GYRO"] ELSE NoFps
        accel_fps == IF "ACCEL" \in DOMAIN m THEN m["ACCEL"] ELSE NoFps
    IN IF Cardinality(DOMAIN m) < Len(requests) THEN "config_error"
       ELSE IF gyro_fps # NoFps /\ accel_fps # NoFps /\ gyro_fps # accel_fps
            THEN "config_error"
            ELSE "ok"

----------------------------------------------------------------------------
(* uvc_sensor: power reference counter *)

\* variant: every acquire powers the device on
NeedsPowerOn_Always(old) == TRUE

\* if (_user_count.fetch_add(1) == 0)
NeedsPowerOn(old) == old = 0

\* variant: no release powers the device off
NeedsPowerOff_Never(old) == FALSE

\* if( _user_count.fetch_add( -1 ) == 1 )
NeedsPowerOff(old) == old = 1

RECURSIVE Repeat(_, _)
Repeat(x, n) == IF n = 0 THEN <<>> ELSE <<x>> \o Repeat(x, n - 1)

\* variant: the catch blocks rethrow without _user_count.fetch_add(-1)
acquire_power_NoRollback(count, dev, nxu, fault) ==
    IF NeedsPowerOn(count)
    THEN IF fault = "d0"
         THEN [count |-> count + 1, dev |-> dev, raised |-> TRUE,
               log |-> <<Ev("set_power_state_D0_failed")>>]
         ELSE IF fault = "xu" /\ nxu > 0
         THEN [count |-> count + 1, dev |-> "D0", raised |-> TRUE,
               log |-> <<Ev("set_power_state_D0"), Ev("init_xu_failed")>>]
         ELSE [count |-> count + 1, dev |-> "D0", raised |-> FALSE,
               log |-> <<Ev("set_power_state_D0")>> \o Repeat(Ev("init_xu"), nxu)]
    ELSE [count |-> count + 1, dev |-> dev, raised |-> FALSE, log |-> <<>>]

\* uvc_sensor::acquire_power, the whole body under _power_lock.
\* fault: "none", "d0" (set_power_state(D0) throws), "xu" (the first init_xu throws)
acquire_power(count, dev, nxu, fault) ==
    IF NeedsPowerOn(count)
    THEN IF fault = "d0"
         THEN [count |-> (count + 1) - 1, dev |-> dev, raised |-> TRUE,
               log |-> <<Ev("set_power_state_D0_failed")>>]
         ELSE IF fault = "xu" /\ nxu > 0
         THEN [count |-> (count + 1) - 1, dev |-> "D0", raised |-> TRUE,
               log |-> <<Ev("set_power_state_D0"), Ev("init_xu_failed")>>]
         ELSE [count |-> count + 1, dev |-> "D0", raised |-> FALSE,
               log |-> <<Ev("set_power_state_D0")>> \o Repeat(Ev("init_xu"), nxu)]
    ELSE [count |-> count + 1, dev |-> dev, raised |-> FALSE, log |-> <<>>]

\* variant: the catch blocks of release_power rethrow
release_power_Rethrow(count, dev, d3fault) ==
    IF NeedsPowerOff(count)
    THEN IF d3fault
         THEN [count |-> count - 1, dev |-> dev, raised |-> TRUE,
               log |-> <<Ev("set_power_state_D3_failed")>>]
         ELSE [count |-> count - 1, dev |-> "D3", raised |-> FALSE,
               log |-> <<Ev("set_power_state_D3")>>]
    ELSE [count |-> count - 1, dev |-> dev, raised |-> FALSE, log |-> <<>>]

\* variant: release_power without _user_count.fetch_add(-1)
release_power_NoDecrement(count, dev, d3fault) ==
    [count |-> count, dev |-> dev, raised |-> FALSE, log |-> <<>>]

\* uvc_sensor::release_power, the whole body under _power_lock.
\* d3fault: set_power_state(D3) throws (caught and logged, never rethrown)
release_power(count, dev, d3fault) ==
    IF NeedsPowerOff(count)
    THEN IF d3fault
         THEN [count |-> count - 1, dev |-> dev, raised |-> FALSE,
               log |-> <<Ev("set_power_state_D3_failed")>>]
         ELSE [count |-> count - 1, dev |-> "D3", raised |-> FALSE,
               log |-> <<Ev("set_power_state_D3")>>]
    ELSE [count |-> count - 1, dev |-> dev, raised |-> FALSE, log |-> <<>>]

----------------------------------------------------------------------------
(* Call-sequence checks at the head of open / close / start / stop *)

SeqErr == "wrong_api_call_sequence"

\* variant: open() tests only _is_streaming
uvc_open_check_StreamingOnly(streaming, opened) == IF streaming THEN SeqErr ELSE "ok"

\* uvc_sensor::open
uvc_open_check(streaming, opened) ==
    IF streaming THEN SeqErr ELSE IF opened THEN SeqErr ELSE "ok"

\* variant: close() tests only _is_opened
uvc_close_check_OpenedOnly(streaming, opened) == IF ~opened THEN SeqErr ELSE "ok"

\* uvc_sensor::close
uvc_close_check(streaming, opened) ==
    IF streaming THEN SeqErr ELSE IF ~opened THEN SeqErr ELSE "ok"

\* uvc_sensor::start
uvc_start_check(streaming, opened) ==
    IF streaming THEN SeqErr ELSE IF ~opened THEN SeqErr ELSE "ok"

\* uvc_sensor::stop
uvc_stop_check(streaming) == IF ~streaming THEN SeqErr ELSE "ok"

\* hid_sensor::open
hid_open_check(streaming, opened) ==
    IF streaming THEN SeqErr ELSE IF opened THEN SeqErr ELSE "ok"

\* hid_sensor::close
hid_close_check(streaming, opened) ==
    IF streaming THEN SeqErr ELSE IF ~opened THEN SeqErr ELSE "ok"

\* hid_sensor::start
hid_start_check(streaming, opened) ==
    IF streaming THEN SeqErr ELSE IF ~opened THEN SeqErr ELSE "ok"

\* hid_sensor::stop
hid_stop_check(streaming) == IF ~streaming THEN SeqErr ELSE "ok"

----------------------------------------------------------------------------
(* State *)

VARIABLES
    kind,                 \* "uvc" or "hid": which raw sensor class this instance is
    xus,                  \* uvc_sensor::_xus, the number of registered extension units
    observe,              \* which history is recorded: "calls" or "frames"
    is_opened,            \* sensor_base::_is_opened
    is_streaming,         \* sensor_base::_is_streaming
    active_profiles,      \* sensor_base::_active_profiles
    internal_config,      \* uvc_sensor::_internal_config
    has_power,            \* uvc_sensor::_power holds a power token
    configured_profiles,  \* hid_sensor::_configured_profiles (sensor name -> request)
    is_configured_stream, \* hid_sensor::_is_configured_stream (set of streams flagged)
    source,               \* sensor_base::_source, the frame_source
    user_count,           \* uvc_sensor::_user_count
    dev_power,            \* power state last set on the transport
    dev_callbacks_on,     \* the transport has been told to deliver raw callbacks
    config_pc,            \* position of the configuration thread inside a handler
    cb,                   \* the transport callback thread
    crashed,              \* the process died on a null dereference
    lastCall,             \* the API call that just completed and what it did
    bracket,              \* successful calls since the sensor was last Closed
    tok,                  \* SpecPower: the power token of each probing thread
    period,               \* SpecPower: power commands issued since the count last left 0
    configure_lock,       \* SpecLock: _configure_lock of each instance (0: free, or its owner)
    caller,               \* SpecLock: where each calling thread is in open/close/start/stop
    syn,                  \* the synthetic_sensor on top of the raw sensor
    mutex,                \* the mutexes of the sensors (0: free, or the thread that owns it)
    thread,               \* the threads inside the handlers: what each has left to do
    reader                \* the iio_hid_timestamp_reader of the hid sensor

sensorVars == <<is_opened, is_streaming, active_profiles, internal_config, has_power,
                configured_profiles, is_configured_stream, dev_callbacks_on, config_pc>>
powerVars == <<user_count, dev_power>>
cbVars == <<cb>>
callVars == <<lastCall, bracket>>
threadVars == <<tok, period>>
lockVars == <<configure_lock, caller>>
\* what no step of the modelled instance, its callback thread or its token
\* holders changes
raceVars == <<mutex, thread, reader>>
fixedVars == <<kind, xus, observe, lockVars, syn, raceVars>>
vars == <<fixedVars, sensorVars, source, powerVars, cbVars, crashed, callVars, threadVars>>

SensorNames == {"gyro_3d", "accel_3d"}

ZeroCount == [t \in FrameTypes |-> 0]

\* frame_source::frame_source
NewSource ==
    [callback |-> "null",
     archive |-> [t \in FrameTypes |-> "absent"],
     metadata_parsers |-> FALSE,
     max_publish_list_size |-> QueueRangeDef,
     published |-> ZeroCount,
     held |-> ZeroCount]

\* no user callback was invoked with a frame
NoUserCall == [callback |-> "null", format |-> "none", by |-> "none"]

\* no payload was copied
NoImage == [width |-> 0, height |-> 0, bpp |-> 0, stride |-> 0, frame_size |-> 0,
            path |-> "none", data |-> <<>>]

IdleCb == [pc |-> "idle", stream |-> "NONE", frame |-> "none", outcome |-> "none",
           continuation |-> 0, wrote_null |-> FALSE, handler_threw |-> FALSE,
           torn_pool |-> FALSE, allocated |-> FALSE, copied |-> FALSE,
           handed |-> FALSE, released |-> FALSE, user |-> NoUserCall,
           callback_read |-> "none", image |-> NoImage]

\* a raw callback is between its streaming check and its return
CallbackInFlight == cb.pc \notin {"idle", "done"}

\* _device->stop_callbacks() / _hid_device->stop_capture(): whether the call
\* waits for a raw callback in flight. It does not: callbacks in flight are not
\* cancelled and complete on their own.
stop_waits_for_callbacks == FALSE

NoCall == [op |-> "none", result |-> "ok", pre |-> "Closed", req |-> <<>>,
           bracket |-> <<>>, log |-> <<>>]

Threads == 1..NumThreads
IdleTok == [t \in Threads |-> "none"]
NoPeriod == [d0 |-> 0, d3 |-> 0, fail |-> "none", peak |-> 0, d3failed |-> FALSE]

\* sensor_base::sensor_base, uvc_sensor::uvc_sensor, hid_sensor::hid_sensor
----------------------------------------------------------------------------
(* synthetic_sensor: the conversion layer and its state *)

\* the callback synthetic_sensor::start gives the raw sensor: a lambda calling
\* _formats_converter.convert_frame
ProcessCb == "process_cb"

\* the options a sensor or a processing block can carry
FramesQueueSize == "frames_queue_size"

\* processing_block::get_supported_options of the converter built for a stream
supported_options(pb) ==
    CASE pb = "DEPTH" -> {"depth_units", FramesQueueSize}
      [] pb = "GYRO" -> {"motion_scale"}
      [] pb = "ACCEL" -> {"motion_scale"}
      [] OTHER -> {}

\* a logical profile the synthetic sensor advertises for a raw profile
Logical(p) == [stream |-> p.stream, fps |-> p.fps, format |-> "converted"]

\* the raw (source) profile a logical profile is converted from
source_profile(lp) == [stream |-> lp.stream, fps |-> lp.fps]

RECURSIVE MapProfiles(_, _)
MapProfiles(Op(_), reqs) ==
    IF reqs = <<>> THEN <<>> ELSE <<Op(Head(reqs))>> \o MapProfiles(Op, Tail(reqs))

\* formats_converter::prepare_to_convert: the active converters and the
\* source profiles for the logical requests
prepare_to_convert(conv, requests) ==
    [conv EXCEPT !.active_converters = {requests[i].stream : i \in DOMAIN requests},
                 !.source_profiles = MapProfiles(source_profile, requests)]

\* the specifications in which the raw sensor is driven by a synthetic sensor
SynModes == {"synthetic", "synthetic_frames"}

\* what a synthetic-sensor call must leave alone when it fails
SynState(s) ==
    [active_converters |-> s.active_converters,
     source_profiles |-> s.source_profiles,
     callback |-> s.callback,
     options |-> s.options,
     cached_processing_blocks_options |-> s.cached_processing_blocks_options,
     active_streams |-> s.active_streams]

NoSaved == [active_converters |-> {}, source_profiles |-> <<>>, callback |-> "null",
            options |-> {}, cached_processing_blocks_options |-> {},
            active_streams |-> <<>>]

\* no call of the synthetic sensor is kept
NoSynCall == [op |-> "none", result |-> "ok", listed |-> <<>>, into |-> "none",
              raw |-> "ok"]

\* synthetic_sensor::synthetic_sensor; sensor_base's constructor registers
\* RS2_OPTION_FRAMES_QUEUE_SIZE
NewSyn ==
    [pc |-> "idle",
     active_converters |-> {},
     source_profiles |-> <<>>,
     callback |-> "null",
     options |-> {FramesQueueSize},
     cached_processing_blocks_options |-> {},
     active_streams |-> <<>>,
     requests |-> <<>>,
     saved |-> NoSaved,
     pre |-> "Closed",
     last |-> NoSynCall,
     profiles |-> [from |-> <<>>, result |-> <<>>]]

Sensors == 1..NumSensors
ConfigureOps == {"open", "close", "start", "stop"}
IdleCaller == [pc |-> "idle", sensor |-> 0, op |-> "none"]

\* the mutexes: _synthetic_configure_lock of the synthetic sensor, and of its
\* raw sensor _configure_lock, _power_lock, _callback_mutex of the frame
\* source, _active_profile_mutex (one in each sensor) and _mtx of the
\* timestamp reader
Mutexes == {"synthetic_configure_lock", "configure_lock", "power_lock", "callback_mutex",
            "active_profile_mutex", "synthetic_active_profile_mutex", "mtx"}

\* a thread outside the handlers
IdleThread == [busy |-> FALSE, rest |-> <<>>, held |-> <<>>, value |-> 0]

\* the streams of the hid sensor
HidStreams == {"GYRO", "ACCEL"}

\* iio_hid_timestamp_reader::iio_hid_timestamp_reader: counter.resize(sensors);
\* reset(). returned and last record the values get_frame_counter gave since
\* the last reset
NewReader == [started |-> FALSE, counter |-> [i \in {0, 1} |-> 0],
              returned |-> [st \in HidStreams |-> {}],
              last |-> [call |-> 0, stream |-> "NONE", value |-> 0]]

InitCommon ==
    /\ is_opened = FALSE
    /\ is_streaming = FALSE
    /\ active_profiles = <<>>
    /\ internal_config = <<>>
    /\ has_power = FALSE
    /\ configured_profiles = [n \in SensorNames |-> NoProfile]
    /\ is_configured_stream = {}
    /\ source = NewSource
    /\ user_count = 0
    /\ dev_power = "D3"
    /\ dev_callbacks_on = FALSE
    /\ config_pc = "idle"
    /\ cb = IdleCb
    /\ crashed = FALSE
    /\ lastCall = NoCall
    /\ bracket = <<>>
    /\ tok = IdleTok
    /\ period = NoPeriod
    /\ configure_lock = [i \in Sensors |-> 0]
    /\ caller = [t \in Threads |-> IdleCaller]
    /\ syn = NewSyn
    /\ mutex = [m \in Mutexes |-> 0]
    /\ thread = [t \in Threads |-> IdleThread]
    /\ reader = NewReader

Init ==
    /\ kind \in {"uvc", "hid"}
    /\ xus = (IF kind = "uvc" THEN NumXus ELSE 0)
    /\ observe = "calls"
    /\ InitCommon

PreState == IF is_streaming THEN "Streaming" ELSE IF is_opened THEN "Opened" ELSE "Closed"

Call(op, result, pre, req, log) ==
    [op |-> op, result |-> result, pre |-> pre, req |-> req,
     bracket |-> bracket, log |-> log]

\* the bracket history after a call that returned result
NextBracket(op, result, eligible) ==
    IF result # "ok" THEN (IF is_opened THEN <<"other">> ELSE <<>>)
    ELSE CASE op = "open" -> IF eligible THEN <<"open">> ELSE <<"other">>
           [] op = "start" -> IF bracket = <<"open">> THEN <<"open", "start">> ELSE <<"other">>
           [] op = "stop" -> IF bracket = <<"open", "start">>
                             THEN <<"open", "start", "stop">> ELSE <<"other">>
           [] OTHER -> <<>>

\* an API call that ran its body and returned or threw result
Done(op, result, pre, req, log, eligible) ==
    IF observe = "calls"
    THEN /\ lastCall' = Call(op, result, pre, req, log)
         /\ bracket' = NextBracket(op, result, eligible)
    ELSE IF observe \in SynModes
    THEN \* the synthetic sensor that made the call sees it return or throw
         /\ lastCall' = [NoCall EXCEPT !.op = op, !.result = result]
         /\ UNCHANGED bracket
    ELSE UNCHANGED callVars

\* the power commands of log, counted into the period p (counters stop at MaxCmd)
RECURSIVE PeriodAfter(_, _)
PeriodAfter(p, log) ==
    IF log = <<>> THEN p
    ELSE LET e == Head(log).e
             q == CASE e = "set_power_state_D0" -> [p EXCEPT !.d0 = Min(p.d0 + 1, MaxCmd)]
                    [] e = "set_power_state_D0_failed" ->
                         [p EXCEPT !.d0 = Min(p.d0 + 1, MaxCmd), !.fail = "d0"]
                    [] e = "init_xu_failed" -> [p EXCEPT !.fail = "xu"]
                    [] e = "set_power_state_D3" -> [p EXCEPT !.d3 = Min(p.d3 + 1, MaxCmd)]
                    [] e = "set_power_state_D3_failed" ->
                         [p EXCEPT !.d3 = Min(p.d3 + 1, MaxCmd), !.fail = "d3",
                                   !.d3failed = TRUE]
                    [] OTHER -> p
         IN PeriodAfter(q, Tail(log))

\* a period starts with the acquire that finds the count at 0
PeriodAtAcquire ==
    IF user_count = 0 THEN [NoPeriod EXCEPT !.d3failed = period.d3failed] ELSE period

\* the period after a step that issued the power commands of log and left the
\* reference count at count
PeriodStep(p, log, count) ==
    LET q == PeriodAfter(p, log) IN [q EXCEPT !.peak = IF count > q.peak THEN count ELSE q.peak]

\* Done for the calls that take or drop the sensor's own power token
DoneP(op, result, pre, req, log, eligible) ==
    /\ Done(op, result, pre, req, log, eligible)
    /\ period' = IF observe = "power"
                 THEN PeriodStep(IF op = "open" THEN PeriodAtAcquire ELSE period, log,
                                 user_count')
                 ELSE period
    /\ UNCHANGED tok

\* an API call that throws at its call-sequence check: nothing else happens
Reject(op, req) ==
    /\ Done(op, SeqErr, PreState, req, <<>>, FALSE)
    /\ UNCHANGED <<fixedVars, sensorVars, source, powerVars, cbVars, crashed, threadVars>>

----------------------------------------------------------------------------
(* frame_source *)

\* a frame the callback thread still holds belongs to a pool that is gone
Orphan(c) == IF c.frame = "frame" THEN [c EXCEPT !.frame = "stale"] ELSE c

\* variant: the requests are not stored
set_active_streams_Empty(requests) == <<>>

\* sensor_base::set_active_streams: the new value of _active_profiles
set_active_streams(requests) == requests

\* frame_source::init
source_init(src) ==
    [src EXCEPT !.archive = [t \in FrameTypes |-> "pool"],
                !.metadata_parsers = TRUE,
                !.published = ZeroCount,
                !.held = ZeroCount]

\* archive_interface::flush: the pool is drained of its frames
archive_flush(count) == 0

\* frame_source::flush: each pool whose pointer is set is flushed
source_flush(src) ==
    LET drained(t) == src.archive[t] = "pool"
    IN [src EXCEPT !.published = [t \in FrameTypes |->
                                    IF drained(t) THEN archive_flush(@[t]) ELSE @[t]],
                   !.held = [t \in FrameTypes |->
                                    IF drained(t) THEN archive_flush(@[t]) ELSE @[t]]]

\* variant: reset leaves the installed callback in place
source_reset_KeepCallback(src) ==
    [src EXCEPT !.archive = [t \in FrameTypes |-> IF src.archive[t] = "absent" THEN "absent" ELSE "null"],
                !.metadata_parsers = FALSE,
                !.published = ZeroCount,
                !.held = ZeroCount]

\* frame_source::reset
source_reset(src) ==
    [src EXCEPT !.callback = "null",
                !.archive = [t \in FrameTypes |-> IF src.archive[t] = "absent" THEN "absent" ELSE "null"],
                !.metadata_parsers = FALSE,
                !.published = ZeroCount,
                !.held = ZeroCount]

\* frame_source::set_callback
source_set_callback(src, c) == [src EXCEPT !.callback = c]

\* archive_interface::alloc_and_track: a frame while the pool has fewer live
\* frames than the published-queue-size, no frame otherwise
alloc_and_track(src, t) ==
    IF src.published[t] < src.max_publish_list_size THEN "frame" ELSE "null"

\* variant: the pool hands out a frame whatever the number of live frames
alloc_frame_Unbounded(src, t) ==
    IF src.archive[t] = "absent" THEN "throw"
    ELSE IF src.archive[t] = "null" THEN "ub"
    ELSE "frame"

\* frame_source::alloc_frame: "throw" when the type has no map entry, "ub" when the
\* entry is a pool pointer that reset() has cleared
alloc_frame(src, t) ==
    IF src.archive[t] = "absent" THEN "throw"
    ELSE IF src.archive[t] = "null" THEN "ub"
    ELSE alloc_and_track(src, t)

\* variant: reset_streaming flushes the frame source and does not reset it
reset_streaming_FlushOnly(src) == source_flush(src)

\* uvc_sensor::reset_streaming (the frame source part)
reset_streaming(src) == source_reset(source_flush(src))

----------------------------------------------------------------------------
(* uvc_sensor: open / close / start / stop *)

\* Is<librealsense::global_time_interface>(_owner)
owner_is_global_time == TRUE

TimeDiff(on) == IF owner_is_global_time
                THEN <<Ev(IF on THEN "time_diff_on" ELSE "time_diff_off")>> ELSE <<>>

\* the catch block of the commit loop: closes in order, the first close that
\* throws leaves the block
RECURSIVE rollback_close(_, _)
rollback_close(commited, closeFails) ==
    IF commited = <<>> THEN <<>>
    ELSE IF Head(commited) \in closeFails THEN <<EvP("close_failed", Head(commited))>>
    ELSE <<EvP("close", Head(commited))>> \o rollback_close(Tail(commited), closeFails)

\* what leaves the catch block of the commit loop: the exception of
\* probe_and_commit through `throw;`, unless a close threw before it was reached
rollback_result(commited, closeFails) ==
    IF \E i \in DOMAIN commited : commited[i] \in closeFails
    THEN "close_error" ELSE "transport_error"

\* variant: the close loop without its try/catch
close_all_StopAtFirst(config, closeFails) == rollback_close(config, closeFails)

\* try { _device->close(profile); } catch (...) {} for every profile
RECURSIVE close_all(_, _)
close_all(config, closeFails) ==
    IF config = <<>> THEN <<>>
    ELSE <<EvP(IF Head(config) \in closeFails THEN "close_failed" ELSE "close", Head(config))>>
         \o close_all(Tail(config), closeFails)

\* the profiles whose _device->close throws: none, or one of those committed
CloseFaults(config) == {{}} \cup {{q} : q \in Range(config)}

\* the transport faults one open() can meet: power names the power-on call that
\* throws, commit the request whose probe_and_commit throws (0: none), close the
\* profiles whose close throws, d3 whether set_power_state(D3) throws
OpenFaults(requests) ==
    {[power |-> x, commit |-> 0, stream_on |-> FALSE, close |-> {}, d3 |-> FALSE] :
        x \in {"d0", "xu"}}
    \cup {[power |-> "none", commit |-> 0, stream_on |-> FALSE, close |-> {}, d3 |-> d] :
        d \in BOOLEAN}
    \cup UNION {{[power |-> "none", commit |-> k, stream_on |-> FALSE, close |-> c, d3 |-> d] :
                 c \in CloseFaults(SubSeq(requests, 1, k - 1)), d \in BOOLEAN} :
               k \in 1..Len(requests)}
    \cup {[power |-> "none", commit |-> 0, stream_on |-> TRUE, close |-> c, d3 |-> d] :
          c \in CloseFaults(requests), d \in BOOLEAN}

SourceIsReset(src) ==
    /\ src.callback = "null"
    /\ \A t \in FrameTypes : src.archive[t] # "pool"
    /\ ~src.metadata_parsers

\* uvc_sensor::open
UvcOpen(requests, f) ==
    /\ kind = "uvc" /\ config_pc = "idle" /\ ~crashed /\ lastCall = NoCall
    /\ IF uvc_open_check(is_streaming, is_opened) # "ok" THEN Reject("open", requests)
       ELSE
       LET acq == acquire_power(user_count, dev_power, xus, f.power)
           rel == release_power(acq.count, acq.dev, f.d3)
           ver == verify_supported_requests(requests)
           k == f.commit
           closeFails == f.close
           commited == SubSeq(requests, 1, k - 1)
       IN
       /\ UNCHANGED <<fixedVars, configured_profiles, is_configured_stream,
                      dev_callbacks_on, config_pc, crashed, is_streaming>>
       /\ CASE acq.raised ->
                 \* the power token's constructor threw: nothing was touched
                 /\ user_count' = acq.count /\ dev_power' = acq.dev
                 /\ DoneP("open", "transport_error", PreState, requests, acq.log, FALSE)
                 /\ UNCHANGED <<is_opened, active_profiles, internal_config, has_power,
                                source, cb>>
            [] ~acq.raised /\ ver # "ok" ->
                 /\ source' = source_init(source) /\ cb' = Orphan(cb)
                 /\ user_count' = rel.count /\ dev_power' = rel.dev
                 /\ DoneP("open", ver, PreState, requests,
                         acq.log \o <<Ev("source_init")>> \o rel.log, FALSE)
                 /\ UNCHANGED <<is_opened, active_profiles, internal_config, has_power>>
            [] ~acq.raised /\ ver = "ok" /\ k \in 1..Len(requests) ->
                 \* probe_and_commit threw for the k-th profile
                 /\ source' = source_init(source) /\ cb' = Orphan(cb)
                 /\ user_count' = rel.count /\ dev_power' = rel.dev
                 /\ DoneP("open", rollback_result(commited, closeFails), PreState, requests,
                         acq.log \o <<Ev("source_init")>> \o MapSeq("commit", commited)
                           \o <<EvP("commit_failed", requests[k])>>
                           \o rollback_close(commited, closeFails) \o rel.log, FALSE)
                 /\ UNCHANGED <<is_opened, active_profiles, internal_config, has_power>>
            [] ~acq.raised /\ ver = "ok" /\ k \notin 1..Len(requests) /\ f.stream_on ->
                 \* stream_on threw after _is_opened = true
                 /\ source' = reset_streaming(source_init(source)) /\ cb' = Orphan(cb)
                 /\ internal_config' = requests
                 /\ user_count' = rel.count /\ dev_power' = rel.dev
                 /\ DoneP("open", "runtime_error", PreState, requests,
                         acq.log \o <<Ev("source_init")>> \o MapSeq("commit", requests)
                           \o <<Ev("stream_on_failed")>> \o close_all(requests, closeFails)
                           \o <<Ev("source_flush"), Ev("source_reset"), Ev("timestamp_reset")>>
                           \o rel.log, FALSE)
                 /\ UNCHANGED <<is_opened, active_profiles, has_power>>
            [] ~acq.raised /\ ver = "ok" /\ k \notin 1..Len(requests) /\ ~f.stream_on ->
                 /\ source' = source_init(source) /\ cb' = Orphan(cb)
                 /\ internal_config' = requests
                 /\ has_power' = TRUE
                 /\ is_opened' = TRUE
                 /\ active_profiles' = set_active_streams(requests)
                 /\ user_count' = acq.count /\ dev_power' = acq.dev
                 /\ DoneP("open", "ok", PreState, requests,
                         acq.log \o <<Ev("source_init")>> \o MapSeq("commit", requests)
                           \o <<Ev("stream_on")>> \o TimeDiff(TRUE), TRUE)

\* uvc_sensor::close
UvcClose(closeFails, d3fault) ==
    /\ kind = "uvc" /\ config_pc = "idle" /\ ~crashed /\ lastCall = NoCall
    /\ IF uvc_close_check(is_streaming, is_opened) # "ok" THEN Reject("close", <<>>)
       ELSE
       LET rel == release_power(user_count, dev_power, d3fault) IN
       /\ source' = reset_streaming(source) /\ cb' = Orphan(cb)
       /\ has_power' = FALSE
       /\ user_count' = rel.count /\ dev_power' = rel.dev
       \* an exception leaving _power.reset() would skip the two lines after it
       /\ is_opened' = (IF rel.raised THEN is_opened ELSE FALSE)
       /\ active_profiles' = (IF rel.raised THEN active_profiles
                               ELSE set_active_streams(<<>>))
       /\ DoneP("close", IF rel.raised THEN "transport_error" ELSE "ok", PreState, <<>>,
               close_all(internal_config, closeFails)
                 \o <<Ev("source_flush"), Ev("source_reset"), Ev("timestamp_reset")>>
                 \o TimeDiff(FALSE) \o rel.log, FALSE)
       /\ UNCHANGED <<fixedVars, is_streaming, internal_config, configured_profiles,
                      is_configured_stream, dev_callbacks_on, config_pc,
                      crashed>>

\* uvc_sensor::start
UvcStart(c, fault) ==
    /\ kind = "uvc" /\ config_pc = "idle" /\ ~crashed /\ lastCall = NoCall
    /\ IF uvc_start_check(is_streaming, is_opened) # "ok" THEN Reject("start", <<>>)
       ELSE
       /\ source' = source_set_callback(source, c)
       /\ is_streaming' = TRUE
       /\ dev_callbacks_on' = IF fault THEN dev_callbacks_on ELSE TRUE
       /\ Done("start", IF fault THEN "transport_error" ELSE "ok", PreState, <<>>,
               <<Ev("notify_true"), Ev("set_callback"), Ev("streaming_true"),
                 Ev(IF fault THEN "start_callbacks_failed" ELSE "start_callbacks")>>, FALSE)
       /\ UNCHANGED <<fixedVars, is_opened, active_profiles, internal_config, has_power,
                      configured_profiles, is_configured_stream, config_pc, powerVars,
                      cbVars, crashed, threadVars>>

\* uvc_sensor::stop up to _is_streaming = false
UvcStopBegin ==
    /\ kind = "uvc" /\ config_pc = "idle" /\ ~crashed /\ lastCall = NoCall
    /\ IF uvc_stop_check(is_streaming) # "ok" THEN Reject("stop", <<>>)
       ELSE
       /\ is_streaming' = FALSE
       /\ config_pc' = "uvc_stop"
       /\ UNCHANGED <<fixedVars, is_opened, active_profiles, internal_config, has_power,
                      configured_profiles, is_configured_stream, dev_callbacks_on,
                      source, powerVars, cbVars, crashed, callVars, threadVars>>

\* uvc_sensor::stop from _device->stop_callbacks() on
UvcStopEnd(fault) ==
    /\ kind = "uvc" /\ config_pc = "uvc_stop" /\ ~crashed
    /\ stop_waits_for_callbacks => ~CallbackInFlight
    /\ config_pc' = "idle"
    /\ dev_callbacks_on' = IF fault THEN dev_callbacks_on ELSE FALSE
    /\ Done("stop", IF fault THEN "transport_error" ELSE "ok", "Streaming", <<>>,
            IF fault THEN <<Ev("streaming_false"), Ev("stop_callbacks_failed")>>
            ELSE <<Ev("streaming_false"), Ev("stop_callbacks"), Ev("timestamp_reset"),
                   Ev("notify_false")>>, FALSE)
    /\ UNCHANGED <<fixedVars, is_opened, is_streaming, active_profiles, internal_config,
                   has_power, configured_profiles, is_configured_stream, source,
                   powerVars, cbVars, crashed, threadVars>>

----------------------------------------------------------------------------
(* hid_sensor: open / close / start / stop *)

\* hid_sensor::rs2_stream_to_sensor_name over _sensor_name_and_hid_profiles;
\* "throw" is invalid_value_exception("rs2_stream not found!")
rs2_stream_to_sensor_name(stream) ==
    CASE stream = "GYRO" -> "gyro_3d"
      [] stream = "ACCEL" -> "accel_3d"
      [] OTHER -> "throw"

\* the request loop of hid_sensor::open: std::map::insert keeps an existing entry
RECURSIVE hid_open_loop(_, _, _, _)
hid_open_loop(requests, conf, flags, names) ==
    IF requests = <<>> THEN [conf |-> conf, flags |-> flags, names |-> names, threw |-> FALSE]
    ELSE LET r == Head(requests)
             n == rs2_stream_to_sensor_name(r.stream)
         IN IF n = "throw"
            THEN [conf |-> conf, flags |-> flags, names |-> names, threw |-> TRUE]
            ELSE hid_open_loop(Tail(requests),
                               IF conf[n] = NoProfile THEN [conf EXCEPT ![n] = r] ELSE conf,
                               flags \cup {r.stream},
                               Append(names, n))

HidLog(e, names) == [i \in DOMAIN names |-> [e |-> e, p |-> [stream |-> names[i], fps |-> 0]]]

\* hid_sensor::open
HidOpen(requests, fault) ==
    /\ kind = "hid" /\ config_pc = "idle" /\ ~crashed /\ lastCall = NoCall
    /\ IF hid_open_check(is_streaming, is_opened) # "ok" THEN Reject("open", requests)
       ELSE
       LET loop == hid_open_loop(requests, configured_profiles, is_configured_stream, <<>>)
           result == IF loop.threw THEN "invalid_value"
                     ELSE IF fault THEN "transport_error" ELSE "ok"
       IN
       /\ configured_profiles' = loop.conf
       /\ is_configured_stream' = loop.flags
       /\ is_opened' = (result = "ok")
       /\ active_profiles' = IF result = "ok" THEN set_active_streams(requests)
                            ELSE active_profiles
       /\ Done("open", result, PreState, requests,
               CASE loop.threw -> <<>>
                 [] ~loop.threw /\ fault -> <<Ev("hid_open_failed")>>
                 [] OTHER -> HidLog("hid_open", loop.names) \o TimeDiff(TRUE),
               TRUE)
       /\ UNCHANGED <<fixedVars, is_streaming, internal_config, has_power,
                      dev_callbacks_on, config_pc, source, powerVars, cbVars, crashed,
                      threadVars>>

\* hid_sensor::close
HidClose(fault) ==
    /\ kind = "hid" /\ config_pc = "idle" /\ ~crashed /\ lastCall = NoCall
    /\ IF hid_close_check(is_streaming, is_opened) # "ok" THEN Reject("close", <<>>)
       ELSE IF fault
       THEN /\ Done("close", "transport_error", PreState, <<>>, <<Ev("hid_close_failed")>>, FALSE)
            /\ UNCHANGED <<fixedVars, sensorVars, source, powerVars, cbVars, crashed,
                           threadVars>>
       ELSE /\ configured_profiles' = [n \in SensorNames |-> NoProfile]
            /\ is_configured_stream' = {}
            /\ is_opened' = FALSE
            /\ active_profiles' = set_active_streams(<<>>)
            /\ Done("close", "ok", PreState, <<>>, <<Ev("hid_close")>> \o TimeDiff(FALSE), FALSE)
            /\ UNCHANGED <<fixedVars, is_streaming, internal_config, has_power,
                           dev_callbacks_on, config_pc, source, powerVars, cbVars,
                           crashed, threadVars>>

\* hid_sensor::start up to _hid_device->start_capture(...)
HidStartBegin(c, fault) ==
    /\ kind = "hid" /\ config_pc = "idle" /\ ~crashed /\ lastCall = NoCall
    /\ IF hid_start_check(is_streaming, is_opened) # "ok" THEN Reject("start", <<>>)
       ELSE
       /\ source' = source_init(source_set_callback(source, c))
       /\ cb' = Orphan(cb)
       /\ IF fault
          THEN /\ Done("start", "transport_error", PreState, <<>>,
                       <<Ev("set_callback"), Ev("source_init"), Ev("notify_true"),
                         Ev("start_capture_failed")>>, FALSE)
               /\ UNCHANGED <<dev_callbacks_on, config_pc>>
          ELSE /\ dev_callbacks_on' = TRUE
               /\ config_pc' = "hid_start"
               /\ UNCHANGED callVars
       /\ UNCHANGED <<fixedVars, is_opened, is_streaming, active_profiles, internal_config,
                      has_power, configured_profiles, is_configured_stream, powerVars,
                      crashed, threadVars>>

\* hid_sensor::start: _is_streaming = true, after start_capture returned
HidStartEnd ==
    /\ kind = "hid" /\ config_pc = "hid_start" /\ ~crashed
    /\ is_streaming' = TRUE
    /\ config_pc' = "idle"
    /\ Done("start", "ok", "Opened", <<>>,
            <<Ev("set_callback"), Ev("source_init"), Ev("notify_true"),
              Ev("start_capture"), Ev("streaming_true")>>, FALSE)
    /\ UNCHANGED <<fixedVars, is_opened, active_profiles, internal_config, has_power,
                   configured_profiles, is_configured_stream, dev_callbacks_on, source,
                   powerVars, cbVars, crashed, threadVars>>

\* hid_sensor::stop
HidStop(fault) ==
    /\ kind = "hid" /\ config_pc = "idle" /\ ~crashed /\ lastCall = NoCall
    /\ stop_waits_for_callbacks => ~CallbackInFlight
    /\ IF hid_stop_check(is_streaming) # "ok" THEN Reject("stop", <<>>)
       ELSE IF fault
       THEN /\ Done("stop", "transport_error", PreState, <<>>, <<Ev("stop_capture_failed")>>, FALSE)
            /\ UNCHANGED <<fixedVars, sensorVars, source, powerVars, cbVars, crashed,
                           threadVars>>
       ELSE /\ dev_callbacks_on' = FALSE
            /\ is_streaming' = FALSE
            /\ source' = source_reset(source_flush(source))
            /\ cb' = Orphan(cb)
            /\ Done("stop", "ok", PreState, <<>>,
                    <<Ev("stop_capture"), Ev("streaming_false"), Ev("source_flush"),
                      Ev("source_reset"), Ev("timestamp_reset"), Ev("notify_false")>>, FALSE)
            /\ UNCHANGED <<fixedVars, is_opened, active_profiles, internal_config,
                           has_power, configured_profiles, is_configured_stream,
                           config_pc, powerVars, crashed, threadVars>>

----------------------------------------------------------------------------
(* Frame production on the transport callback thread *)

RECURSIVE SumOver(_, _)
SumOver(f, S) == IF S = {} THEN 0
                 ELSE LET x == CHOOSE y \in S : TRUE IN f[x] + SumOver(f, S \ {x})

LiveTotal == SumOver(source.published, FrameTypes)

UbOutcomes == {"crash", "continue"}

\* variant: the raw callback does not test is_streaming()
cb_accepts_Always(streaming) == TRUE

\* if (!this->is_streaming()) { ...; return; }
cb_accepts(streaming) == streaming

\* what every step of the callback thread leaves alone
CbFrame == UNCHANGED <<fixedVars, sensorVars, powerVars, callVars, threadVars>>

Drop(outcome) == [IdleCb EXCEPT !.pc = "done", !.outcome = outcome]

\* the lambda given to probe_and_commit: entry and the streaming check
UvcCbArrive(p) ==
    /\ kind = "uvc" /\ ~crashed /\ cb.pc = "idle"
    /\ dev_callbacks_on /\ is_opened /\ p \in Range(internal_config)
    /\ LiveTotal <= MaxLive
    /\ cb' = IF cb_accepts(is_streaming)
             THEN [IdleCb EXCEPT !.pc = "alloc", !.stream = p.stream]
             ELSE Drop("dropped_not_streaming")
    /\ UNCHANGED <<source, crashed>>
    /\ CbFrame

\* variant: continuation() ahead of the memcpy
uvc_next_pc_ContinuationFirst(pc) ==
    CASE pc = "alloc" -> "continuation"
      [] pc = "continuation" -> "copy"
      [] pc = "copy" -> "invoke"
      [] OTHER -> pc

\* the statements of the probe_and_commit lambda once alloc_frame returned a
\* frame: memcpy, continuation(), _source.invoke_callback
uvc_next_pc(pc) ==
    CASE pc = "alloc" -> "copy"
      [] pc = "copy" -> "continuation"
      [] pc = "continuation" -> "invoke"
      [] OTHER -> pc

\* the lambda given to probe_and_commit: generate_frame_from_data and alloc_frame
UvcCbAlloc(ub) ==
    /\ kind = "uvc" /\ ~crashed /\ cb.pc = "alloc"
    /\ LET t == stream_to_frame_types(cb.stream)
           r == alloc_frame(source, t)
       IN CASE r = "throw" ->
                 /\ cb' = Drop("raised") /\ UNCHANGED <<source, crashed>>
            [] r = "ub" /\ ub = "crash" ->
                 /\ cb' = [Drop("crashed") EXCEPT !.torn_pool = TRUE]
                 /\ crashed' = TRUE /\ UNCHANGED source
            [] r = "ub" /\ ub = "continue" ->
                 /\ cb' = [Drop("dropped_alloc") EXCEPT !.torn_pool = TRUE]
                 /\ UNCHANGED <<source, crashed>>
            [] r = "null" ->
                 /\ cb' = Drop("dropped_alloc") /\ UNCHANGED <<source, crashed>>
            [] r = "frame" ->
                 /\ source' = [source EXCEPT !.published[t] = @ + 1]
                 /\ cb' = [cb EXCEPT !.pc = uvc_next_pc("alloc"), !.frame = "frame",
                                     !.allocated = TRUE]
                 /\ UNCHANGED crashed
    /\ CbFrame

\* the lambda given to probe_and_commit: memcpy of the payload into the frame
UvcCbCopy ==
    /\ kind = "uvc" /\ ~crashed /\ cb.pc = "copy"
    /\ cb' = [cb EXCEPT !.pc = uvc_next_pc("copy"), !.copied = TRUE]
    /\ UNCHANGED <<source, crashed>>
    /\ CbFrame

\* the lambda given to probe_and_commit: continuation()
UvcCbContinuation ==
    /\ kind = "uvc" /\ ~crashed /\ cb.pc = "continuation"
    /\ cb' = [cb EXCEPT !.pc = uvc_next_pc("continuation"), !.continuation = @ + 1]
    /\ UNCHANGED <<source, crashed>>
    /\ CbFrame

\* the lambda given to start_capture: entry, request lookup and the streaming check.
\* The transport captures the sensors the device was opened with.
HidCbArrive(n) ==
    /\ kind = "hid" /\ ~crashed /\ cb.pc = "idle"
    /\ dev_callbacks_on /\ is_opened
    /\ n \in {rs2_stream_to_sensor_name(active_profiles[i].stream) : i \in DOMAIN active_profiles}
    /\ configured_profiles[n] # NoProfile
    /\ LiveTotal <= MaxLive
    /\ cb' = IF cb_accepts(is_streaming)
             THEN [IdleCb EXCEPT !.pc = "alloc", !.stream = configured_profiles[n].stream]
             ELSE Drop("dropped_not_streaming")
    /\ UNCHANGED <<source, crashed>>
    /\ CbFrame

\* memcpy( (void *)frame->get_frame_data(), ... ) ahead of if (!frame):
\* TRUE when the copy goes through a null frame
hid_memcpy_through_null(frame) == frame = "null"

\* the lambda given to start_capture: alloc_frame, memcpy, then the null check
HidCbAlloc(ub) ==
    /\ kind = "hid" /\ ~crashed /\ cb.pc = "alloc"
    /\ LET r == alloc_frame(source, "MOTION")
       IN CASE r = "throw" ->
                 /\ cb' = Drop("raised") /\ UNCHANGED <<source, crashed>>
            [] r = "ub" /\ ub = "crash" ->
                 /\ cb' = [Drop("crashed") EXCEPT !.torn_pool = TRUE]
                 /\ crashed' = TRUE /\ UNCHANGED source
            [] r = "ub" /\ ub = "continue" ->
                 /\ cb' = [Drop("dropped_alloc") EXCEPT !.torn_pool = TRUE]
                 /\ UNCHANGED <<source, crashed>>
            [] r = "null" ->
                 IF hid_memcpy_through_null(r)
                 THEN IF ub = "crash"
                      THEN /\ cb' = [Drop("crashed") EXCEPT !.wrote_null = TRUE]
                           /\ crashed' = TRUE /\ UNCHANGED source
                      ELSE /\ cb' = [Drop("dropped_alloc") EXCEPT !.wrote_null = TRUE]
                           /\ UNCHANGED <<source, crashed>>
                 ELSE /\ cb' = Drop("dropped_alloc") /\ UNCHANGED <<source, crashed>>
            [] r = "frame" ->
                 /\ source' = [source EXCEPT !.published["MOTION"] = @ + 1]
                 /\ cb' = [cb EXCEPT !.pc = "invoke", !.frame = "frame", !.allocated = TRUE,
                                     !.copied = TRUE]
                 /\ UNCHANGED crashed
    /\ CbFrame

\* variant: invoke_callback without its catch clauses
invoke_callback_NoCatch(callback, throws) ==
    IF callback # "null"
    THEN [handed |-> TRUE, holder_keeps |-> FALSE, threw |-> throws, propagated |-> throws]
    ELSE [handed |-> FALSE, holder_keeps |-> TRUE, threw |-> FALSE, propagated |-> FALSE]

\* variant: invoke_callback passes frame.frame on without the swap with nullptr
invoke_callback_NoSwap(callback, throws) ==
    IF callback # "null"
    THEN [handed |-> TRUE, holder_keeps |-> TRUE, threw |-> throws, propagated |-> FALSE]
    ELSE [handed |-> FALSE, holder_keeps |-> TRUE, threw |-> FALSE, propagated |-> FALSE]

\* frame_source::invoke_callback for a holder with a frame: handed, the frame
\* pointer went to on_frame; holder_keeps, the holder still has it on return;
\* threw, on_frame threw; propagated, the exception left invoke_callback
invoke_callback(callback, throws) ==
    IF callback # "null"
    THEN [handed |-> TRUE, holder_keeps |-> FALSE, threw |-> throws, propagated |-> FALSE]
    ELSE [handed |-> FALSE, holder_keeps |-> TRUE, threw |-> FALSE, propagated |-> FALSE]

\* frame_holder::~frame_holder for a holder that still has its frame: the frame
\* goes back to its pool
frame_holder_release(src, t) == [src EXCEPT !.published[t] = @ - 1]

\* the functions of frame_source that construct
\* std::lock_guard<std::mutex> lock(_callback_mutex) before they touch _callback
locks_callback_mutex(fn) == fn \in {"init", "reset", "set_callback", "get_callback"}

\* how a function of frame_source reads or writes _callback
callback_access(fn) == IF locks_callback_mutex(fn) THEN "locked" ELSE "unlocked"

\* formats_converter::convert_frame, called by process_cb with a raw frame:
\* the active converter of the frame's stream converts it and the converted
\* frame goes to the callback installed at the conversion layer
convert_frame(conv, stream) ==
    IF conv.callback # "null" /\ stream \in conv.active_converters
    THEN [callback |-> conv.callback, format |-> "converted", by |-> "formats_converter"]
    ELSE NoUserCall

\* rs2_frame_callback::on_frame of the callback frame_source holds: process_cb
\* passes the frame to the conversion layer, a callback of the application
\* gets the raw frame itself
on_frame(callback, conv, stream) ==
    IF callback = ProcessCb THEN convert_frame(conv, stream)
    ELSE [callback |-> callback, format |-> "raw", by |-> "frame_source"]

\* _source.invoke_callback(std::move(frame)), and the frame_holder's destructor
\* after it, which releases the frame the holder still has
CbInvoke(throws) ==
    /\ ~crashed /\ cb.pc = "invoke"
    /\ LET t == stream_to_frame_types(cb.stream)
           tracked == cb.frame = "frame"
           r == invoke_callback(source.callback, throws)
       IN /\ source' = IF tracked
                       THEN LET given == [source EXCEPT
                                             !.held[t] = IF r.handed THEN @ + 1 ELSE @]
                            IN IF r.holder_keeps THEN frame_holder_release(given, t)
                               ELSE given
                       ELSE source
          /\ cb' = [cb EXCEPT !.pc = "done", !.frame = "none",
                              !.outcome = IF r.propagated THEN "raised"
                                          ELSE IF r.handed THEN "delivered" ELSE "released",
                              !.handler_threw = r.threw,
                              !.handed = r.handed,
                              !.released = r.holder_keeps,
                              !.user = IF r.handed
                                       THEN on_frame(source.callback, syn, cb.stream)
                                       ELSE NoUserCall,
                              !.callback_read = callback_access("invoke_callback")]
    /\ UNCHANGED <<crashed>>
    /\ CbFrame

\* the raw callback has returned to the transport
CbReturn ==
    /\ ~crashed /\ cb.pc = "done"
    /\ cb' = IdleCb
    /\ UNCHANGED <<source, crashed>>
    /\ CbFrame

\* the application releases a frame it was handed
UserRelease(t) ==
    /\ ~crashed /\ source.held[t] > 0
    /\ source' = [source EXCEPT !.held[t] = @ - 1, !.published[t] = @ - 1]
    /\ UNCHANGED <<cbVars, crashed>>
    /\ CbFrame

----------------------------------------------------------------------------
(* RS2_OPTION_FRAMES_QUEUE_SIZE *)

\* a float, kept as a whole number of 1/FloatUnit
FloatOf(n) == n * FloatUnit

\* static_cast<uint32_t>(value) of a float that is not negative: truncation
to_uint32(value) == value \div FloatUnit

\* the values the application tries to set: some of the range, one off the
\* step, one above the range, one below it
QueueValues ==
    {FloatOf(0), FloatOf(1), FloatOf(1) + 1, FloatOf(QueueRangeDef),
     FloatOf(QueueRangeMax + 1), FloatOf(0) - 1}

\* option_base::is_valid against option_range{ 0, 32, 1, 16 }
is_valid(value) ==
    /\ value >= FloatOf(QueueRangeMin)
    /\ value <= FloatOf(QueueRangeMax)
    /\ (value - FloatOf(QueueRangeMin)) % FloatOf(QueueRangeStep) = 0

\* variant: set() without the is_valid test
frame_queue_size_set_Unchecked(ptr, value) ==
    [ptr |-> to_uint32(value), result |-> "ok"]

\* frame_queue_size::set on the counter *_ptr
frame_queue_size_set(ptr, value) ==
    IF ~is_valid(value) THEN [ptr |-> ptr, result |-> "invalid_value"]
    ELSE [ptr |-> to_uint32(value), result |-> "ok"]

\* frame_queue_size::query
frame_queue_size_query(ptr) == FloatOf(ptr)

\* an option call as the history keeps it: the value given or returned
OptionCall(op, result, value) ==
    [NoCall EXCEPT !.op = op, !.result = result, !.req = <<value>>]

\* sensor.get_option(RS2_OPTION_FRAMES_QUEUE_SIZE).set(value)
SetQueueSize(value) ==
    /\ ~crashed
    /\ observe = "option" => lastCall = NoCall
    /\ LET r == frame_queue_size_set(source.max_publish_list_size, value) IN
       /\ source' = [source EXCEPT !.max_publish_list_size = r.ptr]
       /\ lastCall' = IF observe = "option" THEN OptionCall("set_option", r.result, value)
                      ELSE lastCall
    /\ UNCHANGED <<fixedVars, sensorVars, powerVars, bracket, threadVars, cbVars, crashed>>

\* sensor.get_option(RS2_OPTION_FRAMES_QUEUE_SIZE).query()
QueryQueueSize ==
    /\ ~crashed /\ observe = "option" /\ lastCall = NoCall
    /\ lastCall' = OptionCall("query_option", "ok",
                              frame_queue_size_query(source.max_publish_list_size))
    /\ UNCHANGED <<fixedVars, sensorVars, powerVars, bracket, threadVars, cbVars, crashed,
                   source>>

----------------------------------------------------------------------------
(* Threads holding power tokens of the UVC sensor (uvc_sensor::power) *)

\* power::power: acquire_power() under _power_lock
TokAcquire(t, fault) ==
    /\ kind = "uvc" /\ observe = "power" /\ tok[t] # "held"
    /\ LET acq == acquire_power(user_count, dev_power, xus, fault) IN
       /\ user_count' = acq.count
       /\ dev_power' = acq.dev
       /\ tok' = [tok EXCEPT ![t] = IF acq.raised THEN "raised" ELSE "held"]
       /\ period' = PeriodStep(PeriodAtAcquire, acq.log, acq.count)
    /\ UNCHANGED <<fixedVars, sensorVars, source, cbVars, crashed, callVars>>

\* power::~power: release_power() under _power_lock, run when the scope that
\* holds the token (uvc_sensor::init_stream_profiles, an option query) is left;
\* throws: the scope is left by an exception (get_profiles or the profile
\* conversion threw) and the destructor runs during unwinding
TokRelease(t, d3fault, throws) ==
    /\ kind = "uvc" /\ observe = "power" /\ tok[t] = "held"
    /\ LET rel == release_power(user_count, dev_power, d3fault) IN
       /\ user_count' = rel.count
       /\ dev_power' = rel.dev
       /\ tok' = [tok EXCEPT ![t] = IF throws THEN "raised" ELSE "none"]
       /\ period' = PeriodStep(period, rel.log, rel.count)
    /\ UNCHANGED <<fixedVars, sensorVars, source, cbVars, crashed, callVars>>

----------------------------------------------------------------------------
(* Specifications *)

\* the caller has taken the call's result
Return ==
    /\ lastCall # NoCall
    /\ lastCall' = NoCall
    /\ UNCHANGED <<fixedVars, sensorVars, source, powerVars, cbVars, crashed, bracket,
                   threadVars>>

\* the states the spec names
OpenLegal == ~is_opened /\ ~is_streaming
CloseLegal == is_opened /\ ~is_streaming
StartLegal == is_opened /\ ~is_streaming
StopLegal == is_streaming

\* transport faults are drawn only for a call that gets to the transport
IfLegal(legal, faults, none) == IF legal /\ observe = "calls" THEN faults ELSE {none}

NoOpenFault == [power |-> "none", commit |-> 0, stream_on |-> FALSE, close |-> {}, d3 |-> FALSE]

\* the configuration thread: open / close / start / stop with transport faults
ConfigNext ==
    \/ \E r \in Requests : \E f \in IfLegal(OpenLegal, OpenFaults(r), NoOpenFault) : UvcOpen(r, f)
    \/ \E cf \in IfLegal(CloseLegal, CloseFaults(internal_config), {}) :
          \E d3 \in IfLegal(CloseLegal, BOOLEAN, FALSE) : UvcClose(cf, d3)
    \/ \E c \in Callbacks : \E fault \in IfLegal(StartLegal, BOOLEAN, FALSE) : UvcStart(c, fault)
    \/ UvcStopBegin
    \/ \E fault \in BOOLEAN : UvcStopEnd(fault)
    \/ \E r \in Requests : \E fault \in IfLegal(OpenLegal, BOOLEAN, FALSE) : HidOpen(r, fault)
    \/ \E fault \in IfLegal(CloseLegal, BOOLEAN, FALSE) : HidClose(fault)
    \/ \E c \in Callbacks : \E fault \in IfLegal(StartLegal, BOOLEAN, FALSE) : HidStartBegin(c, fault)
    \/ HidStartEnd
    \/ \E fault \in IfLegal(StopLegal, BOOLEAN, FALSE) : HidStop(fault)

\* the transport callback thread, the application's frame releases and the
\* queue-size option
FrameNext ==
    \/ \E p \in Profiles : UvcCbArrive(p)
    \/ \E ub \in UbOutcomes : UvcCbAlloc(ub)
    \/ UvcCbCopy
    \/ UvcCbContinuation
    \/ \E n \in SensorNames : HidCbArrive(n)
    \/ \E ub \in UbOutcomes : HidCbAlloc(ub)
    \/ \E throws \in BOOLEAN : CbInvoke(throws)
    \/ CbReturn
    \/ \E t \in FrameTypes : UserRelease(t)
    \/ \E v \in QueueValues : SetQueueSize(v)

Next == ConfigNext \/ Return

\* the sensor state machine under every sequence of API calls, with call history
Spec == Init /\ [][Next]_vars

InitFrames ==
    /\ kind \in {"uvc", "hid"}
    /\ xus = (IF kind = "uvc" THEN NumXus ELSE 0)
    /\ observe = "frames"
    /\ InitCommon

NextFrames == ConfigNext \/ FrameNext

\* the same sensor with frames arriving concurrently, with frame history
SpecFrames == InitFrames /\ [][NextFrames]_vars

\* the power counter under concurrent token holders and the sensor's own open/close
InitPower ==
    /\ kind = "uvc"
    /\ xus = NumXus
    /\ observe = "power"
    /\ InitCommon

PowerFaults == {"none", "d0", "xu"}

\* the requests the sensor is opened with while the tokens come and go: the
\* longest ones that start with the first profile (valid and invalid ones)
PowerRequests ==
    {r \in Requests : Len(r) = MaxReq /\ r[1] = CHOOSE p \in Profiles : p.stream = "DEPTH"}

NextPower ==
    \/ \E t \in Threads : \E fault \in PowerFaults : TokAcquire(t, fault)
    \/ \E t \in Threads : \E d3, throws \in BOOLEAN : TokRelease(t, d3, throws)
    \/ \E r \in PowerRequests :
          \E f \in (IF OpenLegal THEN OpenFaults(r) ELSE {NoOpenFault}) : UvcOpen(r, f)
    \/ \E cf \in (IF CloseLegal THEN CloseFaults(internal_config) ELSE {{}}) :
          \E d3 \in BOOLEAN : UvcClose(cf, d3)
    \/ \E c \in Callbacks : \E fault \in BOOLEAN : UvcStart(c, fault)
    \/ UvcStopBegin
    \/ \E fault \in BOOLEAN : UvcStopEnd(fault)

SpecPower == InitPower /\ [][NextPower]_vars

----------------------------------------------------------------------------
(* synthetic_sensor: open / close / start / stop around the raw sensor's *)

\* sensor_base::register_option (options_container)
register_option(s, opt) == [s EXCEPT !.options = @ \cup {opt}]

\* sensor_base::unregister_option
unregister_option(s, opt) == [s EXCEPT !.options = @ \ {opt}]

\* synthetic_sensor::register_processing_block_options: an option of the block
\* is registered when std::none_of over the block's own options finds no
\* option equal to it
register_processing_block_options(s, pb) ==
    LET options == supported_options(pb)
        missing == {opt \in options : ~(\E o \in options : o = opt)}
    IN [s EXCEPT !.options = @ \cup missing,
                 !.cached_processing_blocks_options = @ \cup missing]

\* variant: every option of the block is unregistered, cached or not
unregister_processing_block_options_All(s, pb) ==
    [s EXCEPT !.options = @ \ supported_options(pb),
              !.cached_processing_blocks_options = @ \ supported_options(pb)]

\* synthetic_sensor::unregister_processing_block_options
unregister_processing_block_options(s, pb) ==
    LET cached == supported_options(pb) \cap s.cached_processing_blocks_options
    IN [s EXCEPT !.options = @ \ cached,
                 !.cached_processing_blocks_options = @ \ cached]

\* for( auto & pb : active_pbs ) Op( *pb )
RECURSIVE ForEachConverter(_, _, _)
ForEachConverter(Op(_, _), s, pbs) ==
    IF pbs = {} THEN s
    ELSE LET pb == CHOOSE x \in pbs : TRUE
         IN ForEachConverter(Op, Op(s, pb), pbs \ {pb})

\* wrong_api_call_sequence_exception and invalid_value_exception are not
\* std::runtime_error: such an error of the raw sensor reaches the caller as
\* it is
librealsense_exception_is_runtime_error == FALSE

\* catch (const std::runtime_error& e) around _raw_sensor->open: the errors
\* thrown as std::runtime_error by the raw sensor (verify_supported_requests,
\* the stream_on failure) match; an exception of the transport matches when
\* its class derives from std::runtime_error (derived)
is_runtime_error(raw, derived) ==
    CASE raw \in {"config_error", "runtime_error"} -> TRUE
      [] raw \in {SeqErr, "invalid_value"} -> librealsense_exception_is_runtime_error
      [] OTHER -> derived

\* variant: synthetic_sensor::open without the try/catch around the raw open
synthetic_open_result_NoWrap(requests, raw, derived) ==
    [op |-> "open", result |-> raw, listed |-> <<>>, into |-> "none", raw |-> raw]

\* what synthetic_sensor::open returns or throws for the raw open's result
synthetic_open_result(requests, raw, derived) ==
    IF raw # "ok" /\ is_runtime_error(raw, derived)
    THEN [op |-> "open", result |-> "invalid_value", listed |-> requests, into |-> raw,
          raw |-> raw]
    ELSE [op |-> "open", result |-> raw, listed |-> <<>>, into |-> "none", raw |-> raw]

\* variant: the raw sensor is started with the user's callback
raw_start_callback_User(callback) == callback

\* the callback synthetic_sensor::start hands to _raw_sensor->start
raw_start_callback(callback) == ProcessCb

SynEnter(op) ==
    /\ observe \in SynModes /\ syn.pc = "idle" /\ lastCall = NoCall /\ ~crashed
    /\ config_pc = "idle"

SynFrame == UNCHANGED <<kind, xus, observe, lockVars, raceVars, sensorVars, source, powerVars,
                        cbVars, crashed, bracket, threadVars>>

\* synthetic_sensor::open up to _raw_sensor->open
SynOpenBegin(requests) ==
    /\ SynEnter("open")
    /\ LET prepared == prepare_to_convert(syn, requests)
           registered == ForEachConverter(register_processing_block_options, prepared,
                                          prepared.active_converters)
       IN syn' = [registered EXCEPT !.pc = "raw_open", !.requests = requests,
                                    !.saved = SynState(syn), !.pre = PreState]
    /\ UNCHANGED lastCall
    /\ SynFrame

\* synthetic_sensor::open from the return or throw of _raw_sensor->open
SynOpenEnd(derived) ==
    /\ observe \in SynModes /\ syn.pc = "raw_open" /\ lastCall.op = "open"
    /\ syn' = [syn EXCEPT !.pc = "done",
                          !.last = synthetic_open_result(syn.requests, lastCall.result,
                                                         derived),
                          !.active_streams = IF lastCall.result = "ok" THEN syn.requests
                                             ELSE @]
    /\ lastCall' = NoCall
    /\ SynFrame

\* synthetic_sensor::close: the lock, then _raw_sensor->close
SynCloseBegin ==
    /\ SynEnter("close")
    /\ syn' = [syn EXCEPT !.pc = "raw_close", !.saved = SynState(syn), !.pre = PreState]
    /\ UNCHANGED lastCall
    /\ SynFrame

\* synthetic_sensor::close from the return or throw of _raw_sensor->close
SynCloseEnd ==
    /\ observe \in SynModes /\ syn.pc = "raw_close" /\ lastCall.op = "close"
    /\ LET result == lastCall.result
           unregistered == ForEachConverter(unregister_processing_block_options, syn,
                                            syn.active_converters)
           last == [NoSynCall EXCEPT !.op = "close", !.result = result, !.raw = result]
       IN syn' = IF result = "ok"
                 THEN [unregistered EXCEPT !.pc = "done", !.last = last,
                                           !.callback = "null", !.active_streams = <<>>]
                 ELSE [syn EXCEPT !.pc = "done", !.last = last]
    /\ lastCall' = NoCall
    /\ SynFrame

\* synthetic_sensor::start up to _raw_sensor->start
SynStartBegin(callback) ==
    /\ SynEnter("start")
    /\ syn' = [syn EXCEPT !.pc = "raw_start", !.callback = callback,
                          !.saved = SynState(syn), !.pre = PreState]
    /\ UNCHANGED lastCall
    /\ SynFrame

\* synthetic_sensor::start from the return or throw of _raw_sensor->start
SynStartEnd ==
    /\ observe \in SynModes /\ syn.pc = "raw_start" /\ lastCall.op = "start"
    /\ syn' = [syn EXCEPT !.pc = "done",
                          !.last = [NoSynCall EXCEPT !.op = "start",
                                                     !.result = lastCall.result,
                                                     !.raw = lastCall.result]]
    /\ lastCall' = NoCall
    /\ SynFrame

\* synthetic_sensor::stop: the lock, then _raw_sensor->stop
SynStopBegin ==
    /\ SynEnter("stop")
    /\ syn' = [syn EXCEPT !.pc = "raw_stop", !.saved = SynState(syn), !.pre = PreState]
    /\ UNCHANGED lastCall
    /\ SynFrame

\* synthetic_sensor::stop from the return or throw of _raw_sensor->stop
SynStopEnd ==
    /\ observe \in SynModes /\ syn.pc = "raw_stop" /\ lastCall.op = "stop"
    /\ syn' = [syn EXCEPT !.pc = "done",
                          !.last = [NoSynCall EXCEPT !.op = "stop",
                                                     !.result = lastCall.result,
                                                     !.raw = lastCall.result]]
    /\ lastCall' = NoCall
    /\ SynFrame

\* the caller of the synthetic sensor takes the call's result
SynReturn ==
    /\ observe \in SynModes /\ syn.pc = "done"
    /\ syn' = [syn EXCEPT !.pc = "idle", !.last = NoSynCall, !.saved = NoSaved,
                          !.requests = <<>>, !.pre = "Closed"]
    /\ UNCHANGED lastCall
    /\ SynFrame

\* the logical requests given to synthetic_sensor::open: a motion profile and
\* one more profile
SynRequests ==
    {MapProfiles(Logical, r) :
        r \in {q \in Requests : Len(q) = 2 /\ q[1] = [stream |-> "GYRO", fps |-> 100]}}

\* the faults the raw open meets under the synthetic sensor
SynOpenFaults ==
    IF OpenLegal /\ observe = "synthetic" THEN OpenFaults(syn.source_profiles)
    ELSE {NoOpenFault}

\* the raw sensor's handlers as the synthetic sensor calls them
SynRawNext ==
    \/ syn.pc = "raw_open" /\ \E f \in SynOpenFaults : UvcOpen(syn.source_profiles, f)
    \/ syn.pc = "raw_open" /\ HidOpen(syn.source_profiles, FALSE)
    \/ syn.pc = "raw_close" /\ UvcClose({}, FALSE)
    \/ syn.pc = "raw_close" /\ HidClose(FALSE)
    \/ syn.pc = "raw_start" /\ UvcStart(raw_start_callback(syn.callback), FALSE)
    \/ syn.pc = "raw_start" /\ HidStartBegin(raw_start_callback(syn.callback), FALSE)
    \/ syn.pc = "raw_start" /\ HidStartEnd
    \/ syn.pc = "raw_stop" /\ UvcStopBegin
    \/ syn.pc = "raw_stop" /\ UvcStopEnd(FALSE)
    \/ syn.pc = "raw_stop" /\ HidStop(FALSE)

SynNext ==
    \/ \E r \in SynRequests : SynOpenBegin(r)
    \/ \E derived \in BOOLEAN : SynOpenEnd(derived)
    \/ SynCloseBegin
    \/ SynCloseEnd
    \/ \E c \in Callbacks : SynStartBegin(c)
    \/ SynStartEnd
    \/ SynStopBegin
    \/ SynStopEnd
    \/ SynReturn

InitSyn ==
    /\ kind \in {"uvc", "hid"}
    /\ xus = (IF kind = "uvc" THEN NumXus ELSE 0)
    /\ observe = "synthetic"
    /\ InitCommon

NextSyn == SynNext \/ SynRawNext

\* the synthetic sensor over a raw sensor on a failing transport
SpecSyn == InitSyn /\ [][NextSyn]_vars

SynFrameNext ==
    \/ \E p \in Profiles : UvcCbArrive(p)
    \/ \E ub \in UbOutcomes : UvcCbAlloc(ub)
    \/ UvcCbCopy
    \/ UvcCbContinuation
    \/ \E n \in SensorNames : HidCbArrive(n)
    \/ \E ub \in UbOutcomes : HidCbAlloc(ub)
    \/ \E throws \in BOOLEAN : CbInvoke(throws)
    \/ CbReturn
    \/ \E t \in FrameTypes : UserRelease(t)

InitSynFrames ==
    /\ kind \in {"uvc", "hid"}
    /\ xus = (IF kind = "uvc" THEN NumXus ELSE 0)
    /\ observe = "synthetic_frames"
    /\ InitCommon

NextSynFrames == SynNext \/ SynRawNext \/ SynFrameNext

\* the synthetic sensor with raw frames arriving on the transport's thread
SpecSynFrames == InitSynFrames /\ [][NextSynFrames]_vars

\* the errors with which the raw sensor's open fails to configure the device
\* or to reach it
OpenFailures == {"config_error", "runtime_error", "invalid_value", "transport_error",
                 "close_error"}

\* C23: when the raw sensor's open fails with a configuration or transport
\* error during synthetic_sensor::open, the caller gets an invalid-value
\* error listing every requested logical profile followed by the raw error's
\* message, and the active streams are not set
C23_RawOpenFailureRewrapped ==
    (syn.pc = "done" /\ syn.last.op = "open" /\ syn.last.raw \in OpenFailures)
        => /\ syn.last.result = "invalid_value"
           /\ syn.last.listed = syn.requests
           /\ syn.last.into = syn.last.raw
           /\ syn.active_streams = syn.saved.active_streams

\* synthetic_sensor::open has thrown what the raw open threw, as it was
Unwrapped ==
    /\ syn.last.result = syn.last.raw
    /\ syn.last.listed = <<>>
    /\ syn.last.into = "none"

\* synthetic_sensor::open has thrown the invalid-value error that lists the
\* logical requests and then the raw error's message
Rewrapped ==
    /\ syn.last.result = "invalid_value"
    /\ syn.last.listed = syn.requests
    /\ syn.last.into = syn.last.raw

\* C23 (amended): a std::runtime_error of the raw open (a configuration error
\* of verify_supported_requests, the stream_on failure) is thrown again as an
\* invalid-value error listing every requested logical profile followed by
\* the raw error's message; a sequence error or an invalid-value error of the
\* raw sensor reaches the caller as it was, an exception of the transport
\* either way; in every failure the active streams are not set
C23_RuntimeErrorRewrapped ==
    (syn.pc = "done" /\ syn.last.op = "open" /\ syn.last.raw # "ok")
        => /\ syn.active_streams = syn.saved.active_streams
           /\ syn.last.raw \in {"config_error", "runtime_error"} => Rewrapped
           /\ syn.last.raw \in {SeqErr, "invalid_value"} => Unwrapped
           /\ Rewrapped \/ Unwrapped

\* a duplicate stream request has failed the raw open and was thrown again
\* with the logical requests listed
C23_Witness ==
    /\ syn.pc = "done" /\ syn.last.op = "open" /\ syn.last.raw = "config_error"
    /\ Rewrapped /\ Len(syn.last.listed) > 1
    /\ syn.active_streams = <<>>

------------------------------------------------------------------------\* C24: synthetic_sensor::start installs the user callback at the conversion
\* layer before it starts the raw sensor, and starts the raw sensor with the
\* internal callback that passes each raw frame to the format converter: the
\* user callback is invoked by the conversion layer only, with a converted
\* frame, never with a frame coming from the raw sensor
C24_UserCallbackBehindConversion ==
    /\ source.callback \in {"null", ProcessCb}
    /\ syn.pc = "raw_start" => syn.callback \in Callbacks
    /\ is_streaming => syn.callback \in Callbacks
    /\ cb.user.callback # "null"
           => /\ cb.user.callback \in Callbacks
              /\ cb.user.by = "formats_converter"
              /\ cb.user.format = "converted"
              /\ cb.handed

\* a raw frame went to the internal callback and the conversion layer invoked
\* the user callback with the converted frame
C24_Witness ==
    /\ cb.pc = "done" /\ cb.handed /\ source.callback = ProcessCb
    /\ cb.user = [callback |-> "cb1", format |-> "converted", by |-> "formats_converter"]
    /\ is_streaming

\* the calls that are not a transition of Closed -> Opened -> Streaming ->
\* Opened -> Closed
IllegalTransition(op, pre) ==
    \/ op = "open" /\ pre \in {"Opened", "Streaming"}
    \/ op = "start" /\ pre \in {"Streaming", "Closed"}
    \/ op = "close" /\ pre \in {"Streaming", "Closed"}
    \/ op = "stop" /\ pre # "Streaming"

\* C25: an illegal transition of a synthetic sensor fails with a sequence
\* error and leaves the active converters, the source profiles, the registered
\* options, the active streams and the callback of the conversion layer as
\* they were before the call
C25_IllegalTransitionLeavesState ==
    (syn.pc = "done" /\ IllegalTransition(syn.last.op, syn.pre))
        => /\ syn.last.result = SeqErr
           /\ SynState(syn) = syn.saved

\* C30: after synthetic_sensor::open succeeds every option of an active
\* converter that was not registered on the sensor is registered and kept in
\* the cached processing-block options, and the options already on the
\* sensor are as they were
C30_ConverterOptionsRegistered ==
    (syn.pc = "done" /\ syn.last.op = "open" /\ syn.last.result = "ok")
        => /\ \A pb \in syn.active_converters : \A opt \in supported_options(pb) :
                 /\ opt \in syn.options
                 /\ opt \notin syn.saved.options
                        => opt \in syn.cached_processing_blocks_options
           /\ syn.saved.options \subseteq syn.options
           /\ syn.cached_processing_blocks_options \cap syn.saved.options
                  = syn.saved.cached_processing_blocks_options

\* C26: a raw UVC callback invokes the continuation of the transport's buffer
\* exactly once on every path: when the frame is delivered and when it is
\* dropped early (sensor not streaming, allocation returned null)
C26_ContinuationOnEveryPath ==
    (kind = "uvc" /\ cb.pc = "done") => cb.continuation = 1

\* C27: every read and write of the frame source's callback pointer
\* (set_callback, get_callback, reset, invoke_callback) is made with the
\* callback mutex held, so that invoke_callback on the transport's thread
\* never reads the pointer while set_callback or reset writes it
C27_CallbackPointerUnderMutex ==
    /\ \A fn \in {"set_callback", "get_callback", "reset"} : callback_access(fn) = "locked"
    /\ cb.callback_read # "unlocked"

\* what the claims about flush, reset and init speak of
SourceParts(src) ==
    [callback |-> src.callback,
     pools |-> {t \in FrameTypes : src.archive[t] = "pool"},
     metadata_parsers |-> src.metadata_parsers]

\* C28: frame_source::flush leaves the installed callback, the set of pools
\* and the metadata-parser registry as they are; frame_source::reset clears
\* the callback, releases every pool and detaches the registry;
\* frame_source::init creates all seven pools anew and attaches the registry
\* and leaves the installed callback as it is
C28_FlushResetInit ==
    /\ SourceParts(source_flush(source)) = SourceParts(source)
    /\ SourceParts(source_reset(source))
           = [callback |-> "null", pools |-> {}, metadata_parsers |-> FALSE]
    /\ SourceParts(source_init(source))
           = [callback |-> source.callback, pools |-> FrameTypes, metadata_parsers |-> TRUE]
    /\ Cardinality(SourceParts(source_init(source)).pools) = 7

\* a frame source with a callback, its pools, its registry and a live frame:
\* flush, reset and init each have something to do
C28_Witness ==
    /\ source.callback \in Callbacks /\ source.metadata_parsers
    /\ SourceParts(source).pools = FrameTypes
    /\ source_flush(source) # source
    /\ source_init(source_reset(source)).callback = "null"
    /\ source_init(source).callback = source.callback

\* C29: frame_source::alloc_frame returns a null frame, and raises no error,
\* when it is asked for a frame type that has no pool (before init, after
\* reset)
C29_NoPoolGivesNull ==
    \A t \in FrameTypes : source.archive[t] # "pool" => alloc_frame(source, t) = "null"

\* C31: synthetic_sensor::close closes the raw sensor, unregisters exactly the
\* converter options that open registered (the options after open and close
\* are those before open, and no option the sensor had before open is
\* removed), clears the frame callback of the conversion layer and empties
\* the active streams
C31_CloseUndoesOpen ==
    /\ (syn.pc = "done" /\ syn.last.op = "close" /\ syn.last.result = "ok")
           => /\ ~is_opened
              /\ syn.options = syn.saved.options \ syn.saved.cached_processing_blocks_options
              /\ syn.cached_processing_blocks_options = {}
              /\ syn.callback = "null"
              /\ syn.active_streams = <<>>
    /\ NewSyn.options \subseteq syn.options
    /\ (syn.pc = "idle" /\ ~is_opened /\ ~is_streaming) => syn.options = NewSyn.options

\* a synthetic sensor that streamed depth with a user callback was closed:
\* the depth converter exposes an option the sensor had before open
C31_Witness ==
    /\ syn.pc = "done" /\ syn.last.op = "close" /\ syn.last.result = "ok"
    /\ "DEPTH" \in syn.active_converters
    /\ supported_options("DEPTH") \cap syn.saved.options # {}
    /\ syn.saved.callback \in Callbacks /\ syn.saved.active_streams # <<>>
    /\ syn.callback = "null" /\ syn.active_streams = <<>>

\* two profiles of a request set are of the same stream type
DuplicateStream(req) ==
    \E i, j \in DOMAIN req : i # j /\ req[i].stream = req[j].stream

\* C35: hid_sensor::open rejects a request set with two profiles of the same
\* stream type with a configuration error; the sensor stays Closed and nothing
\* is opened on the HID transport
C35_HidOpenRejectsDuplicates ==
    (kind = "hid" /\ lastCall.op = "open" /\ lastCall.pre = "Closed"
        /\ DuplicateStream(lastCall.req))
        => /\ lastCall.result = "config_error"
           /\ ~is_opened
           /\ \A k \in DOMAIN lastCall.log : lastCall.log[k].e # "hid_open"

\* a step changes the configuration only inside open or close, a successful
\* open stores its requests, and an opened sensor keeps its active streams
ConfigurationStep ==
    /\ (<<active_profiles, internal_config, is_opened, user_count>>
          # <<active_profiles', internal_config', is_opened', user_count'>>)
         => (lastCall' # lastCall /\ lastCall'.op \in {"open", "close"})
    /\ (lastCall' # lastCall /\ lastCall'.op = "open" /\ lastCall'.result = "ok")
         => (is_opened' /\ active_profiles' = lastCall'.req)
    /\ (is_opened /\ is_opened') => (active_profiles' = active_profiles)

\* C36: start and stop on a raw sensor leave the active streams, the profiles
\* committed on the transport, the opened flag and the power reference count
\* as they are; the active streams are the requested profiles from a
\* successful open until close and are empty otherwise
C36_StartStopKeepConfiguration ==
    /\ [](~is_opened => active_profiles = <<>>)
    /\ [][ConfigurationStep]_vars

\* a sensor opened with two profiles was started and stopped and still has
\* them as its active streams
C36_Witness ==
    /\ lastCall.op = "stop" /\ lastCall.result = "ok"
    /\ is_opened /\ ~is_streaming /\ Len(active_profiles) > 1
    /\ kind = "uvc" => (user_count = 1 /\ internal_config = active_profiles)

\* C37: when the transport's start_callbacks throws inside uvc_sensor::start
\* the sensor is not left Streaming: it is still Opened, so that a start
\* and a close after it are accepted
C37_FailedStartStaysOpened ==
    (kind = "uvc" /\ lastCall.op = "start" /\ lastCall.result = "transport_error")
        => /\ is_opened /\ ~is_streaming
           /\ uvc_start_check(is_streaming, is_opened) = "ok"
           /\ uvc_close_check(is_streaming, is_opened) = "ok"

\* a step in which hid_sensor::open fails on the transport leaves the
\* configured profiles and the configured-stream flags as they were
FailedHidOpenStep ==
    (kind = "hid" /\ lastCall' # lastCall /\ lastCall'.op = "open"
        /\ lastCall'.result = "transport_error")
        => UNCHANGED <<configured_profiles, is_configured_stream>>

\* a step in which hid_sensor::open succeeds leaves the profiles and the
\* streams of its own request configured, and no other
HidOpenRecordsStep ==
    (kind = "hid" /\ lastCall' # lastCall /\ lastCall'.op = "open"
        /\ lastCall'.result = "ok")
        => /\ is_configured_stream'
                 = {lastCall'.req[k].stream : k \in DOMAIN lastCall'.req}
           /\ \A n \in SensorNames :
                 configured_profiles'[n] # NoProfile
                    => \E k \in DOMAIN lastCall'.req :
                          configured_profiles'[n] = lastCall'.req[k]

\* C38: when the HID transport's open throws inside hid_sensor::open the
\* configured-profile map and the configured-stream flags are as before the
\* call, so that a later successful open records the profiles of its own
\* request and none of the failed one
C38_FailedHidOpenLeavesNoProfiles == [][FailedHidOpenStep /\ HidOpenRecordsStep]_vars

\* C39: when stream_on throws at the end of uvc_sensor::open every committed
\* profile is closed, a failing close not stopping the others, the frame
\* source and the timestamp reader are reset, the power token is released,
\* the sensor is Closed with no active streams and the caller gets a runtime
\* error
C39_StreamOnFailureUndone ==
    (kind = "uvc" /\ lastCall.op = "open" /\ HasEvent(lastCall.log, "stream_on_failed"))
        => LET log == lastCall.log
               failed == CHOOSE i \in DOMAIN log : log[i].e = "stream_on_failed"
           IN /\ lastCall.result = "runtime_error"
              /\ \A k \in DOMAIN lastCall.req :
                    \E i \in DOMAIN log :
                       /\ i > failed /\ log[i].p = lastCall.req[k]
                       /\ log[i].e \in {"close", "close_failed"}
              /\ \A e \in {"source_flush", "source_reset", "timestamp_reset"} :
                    \E i \in DOMAIN log : i > failed /\ log[i].e = e
              /\ SourceIsReset(source)
              /\ ~has_power /\ user_count = 0
              /\ ~is_opened /\ ~is_streaming /\ active_profiles = <<>>

\* stream_on threw after two profiles were committed and the close of the
\* first of them threw as well
C39_Witness ==
    /\ kind = "uvc" /\ lastCall.op = "open" /\ lastCall.result = "runtime_error"
    /\ Len(lastCall.req) = 2
    /\ \E i \in DOMAIN lastCall.log :
          /\ lastCall.log[i] = Ev("stream_on_failed")
          /\ i + 2 \in DOMAIN lastCall.log
          /\ lastCall.log[i + 1] = EvP("close_failed", lastCall.req[1])
          /\ lastCall.log[i + 2] = EvP("close", lastCall.req[2])
    /\ ~is_opened /\ user_count = 0

----------------------------------------------------------------------------
(* synthetic_sensor: the order of the profile catalog *)

\* the longest catalog that is sorted
MaxCatalog == 2

\* the value of an rs2_stream enumerator
rs2_stream_value(stream) ==
    CASE stream = "DEPTH" -> 1
      [] stream = "COLOR" -> 2
      [] stream = "INFRARED" -> 3

\* the value of an rs2_format enumerator
rs2_format_value(format) ==
    CASE format = "RGB8" -> 5
      [] format = "Y8" -> 9
      [] format = "Y16" -> 10

\* the profiles get_all_possible_profiles can put in the catalog
CatalogProfiles ==
    [stream : {"COLOR", "INFRARED"}, index : {1, 2}, width : {640}, height : {480},
     fps : {30, 60}, format : {"RGB8", "Y16"}]

Catalogs == UNION {[1..n -> CatalogProfiles] : n \in 0..MaxCatalog}

\* a bool as std::tuple's operator> compares it
BoolValue(b) == IF b THEN 1 ELSE 0

\* variant: the stream index enters the tuple as it is
sort_key_IndexAsIs(p) ==
    <<rs2_stream_value(p.stream), p.index, p.width, p.height, p.fps,
      BoolValue(p.stream = "COLOR" /\ p.format = "RGB8"), rs2_format_value(p.format)>>

\* std::make_tuple(a.stream, -a.index, a.width, a.height, a.fps,
\*                 a.stream == RS2_STREAM_COLOR && a.format == RS2_FORMAT_RGB8, a.format)
sort_key(p) ==
    <<rs2_stream_value(p.stream), 0 - p.index, p.width, p.height, p.fps,
      BoolValue(p.stream = "COLOR" /\ p.format = "RGB8"), rs2_format_value(p.format)>>

\* operator> of two tuples of the same length: lexicographic
RECURSIVE TupleGreater(_, _)
TupleGreater(a, b) ==
    IF a = <<>> THEN FALSE
    ELSE IF Head(a) # Head(b) THEN Head(a) > Head(b)
    ELSE TupleGreater(Tail(a), Tail(b))

\* the comparison given to std::sort: at > bt
sort_before(a, b) == TupleGreater(sort_key(a), sort_key(b))

\* the arrangements of a sequence
Arrangements(seq) ==
    {[i \in DOMAIN seq |-> seq[f[i]]] :
        f \in {g \in [DOMAIN seq -> DOMAIN seq] : \A i, j \in DOMAIN seq : i # j => g[i] # g[j]}}

\* what std::sort can leave: an arrangement in which no element comes after
\* one it has to come before
sort_profiles(profiles) ==
    {r \in Arrangements(profiles) :
        \A i, j \in DOMAIN r : i < j => ~sort_before(r[j], r[i])}

\* synthetic_sensor::init_stream_profiles: the catalog of the conversion
\* layer, sorted; the sensor builds it once and keeps it
InitStreamProfiles(from) ==
    /\ observe = "catalog" /\ syn.profiles.from = <<>>
    /\ \E r \in sort_profiles(from) :
          syn' = [syn EXCEPT !.profiles = [from |-> from, result |-> r]]
    /\ UNCHANGED <<kind, xus, observe, lockVars, raceVars, sensorVars, source, powerVars, cbVars,
                   crashed, callVars, threadVars>>

InitCatalog ==
    /\ kind \in {"uvc", "hid"}
    /\ xus = (IF kind = "uvc" THEN NumXus ELSE 0)
    /\ observe = "catalog"
    /\ InitCommon

NextCatalog == \E from \in Catalogs : InitStreamProfiles(from)

\* the profile catalog of a synthetic sensor, built and sorted
SpecCatalog == InitCatalog /\ [][NextCatalog]_vars

\* the order of two profiles when the stream index, like every other
\* element, sorts descending
DescendingKey(p) ==
    <<rs2_stream_value(p.stream), p.index, p.width, p.height, p.fps,
      BoolValue(p.stream = "COLOR" /\ p.format = "RGB8"), rs2_format_value(p.format)>>

\* the sorted catalog is the same for every arrangement of the same profiles
SameForEveryOrder ==
    \A other \in Arrangements(syn.profiles.from) :
        sort_profiles(other) = {syn.profiles.result}

\* C32: sort_profiles orders the catalog by stream type, then descending
\* stream index, then width, height, frame rate, the COLOR/RGB8 preference
\* and format, all descending, and the result is the same for every input
\* ordering of the same profiles
C32_CatalogAllDescending ==
    LET r == syn.profiles.result
    IN /\ \A i, j \in DOMAIN r :
             i < j => ~TupleGreater(DescendingKey(r[j]), DescendingKey(r[i]))
       /\ SameForEveryOrder

\* C32 (amended): the catalog is ordered by stream type descending, then
\* stream index ascending, then width, height, frame rate, the COLOR/RGB8
\* preference and format descending, and the result is the same for every
\* input ordering of the same profiles
C32_CatalogOrder ==
    LET r == syn.profiles.result
        key(p) == <<rs2_stream_value(p.stream), 0 - p.index, p.width, p.height,
                    p.fps, BoolValue(p.stream = "COLOR" /\ p.format = "RGB8"),
                    rs2_format_value(p.format)>>
    IN /\ \A i, j \in DOMAIN r : i < j => ~TupleGreater(key(r[j]), key(r[i]))
       /\ \A i, j \in DOMAIN r :
             (i < j /\ r[i].stream = r[j].stream) => r[i].index <= r[j].index
       /\ SameForEveryOrder

\* two infrared profiles given with index 2 first came out with index 1 first
C32_Witness ==
    /\ Len(syn.profiles.from) = 2
    /\ syn.profiles.from[1].stream = "INFRARED" /\ syn.profiles.from[2].stream = "INFRARED"
    /\ syn.profiles.from[1].index = 2 /\ syn.profiles.from[2].index = 1
    /\ syn.profiles.result = <<syn.profiles.from[2], syn.profiles.from[1]>>

----------------------------------------------------------------------------
(* uvc_sensor: the copy of the payload out of a row-padded buffer *)

\* the largest height of an image
MaxHeight == 2

\* the largest width of an image, in units of 8 pixels, next to the width 64
MaxCols == 3

\* the row alignment of the padded buffers
Align64 == 64

Widths == {8 * k : k \in 1..MaxCols} \cup {Align64}
Heights == 1..MaxHeight

\* get_image_bpp of the formats, with the 4 bits the callback sets for
\* RS2_STREAM_CONFIDENCE
Bpps == {4, 8, 12, 16}

\* the bytes of a row of the image: width * bpp / 8
RowBytes(width, bpp) == (width * bpp) \div 8

\* compute_frame_expected_size
compute_frame_expected_size(width, height, bpp) == (width * height * bpp) \div 8

\* the next multiple of 64 above n
NextAligned(n) == ((n \div Align64) + 1) * Align64

\* the byte read at offset k of the transport's buffer: the row and the column
\* it belongs to, or <<-1, -1>> outside the buffer
PixAt(img, k) ==
    IF k < img.frame_size THEN <<k \div img.stride, k % img.stride>> ELSE <<0 - 1, 0 - 1>>

\* int factor = bpp >> 3; int bytes_in_width = width * factor;
bytes_in_width(width, bpp) == width * (bpp \div 8)

\* sensor_base::align_width_to_64: from each row of the padded buffer the
\* first bytes_in_width bytes
align_width_to_64(width, height, bpp, img) ==
    LET biw == bytes_in_width(width, bpp)
        actual_input_bytes_in_width == NextAligned(biw)
    IN [n \in 1..(height * biw) |->
           LET j == (n - 1) \div biw
               c == (n - 1) % biw
           IN PixAt(img, j * actual_input_bytes_in_width + c)]

\* memcpy( dst, src, size ): the bytes copied, and whether the copy read past
\* the end of src
memcpy(src, size) ==
    [data |-> [n \in 1..size |-> IF n <= Len(src) THEN src[n] ELSE <<0 - 1, 0 - 1>>],
     overrun |-> size > Len(src)]

\* the copy of the lambda given to probe_and_commit: the path it takes and
\* the bytes the frame gets
copy_payload(img) ==
    LET expected_size == compute_frame_expected_size(img.width, img.height, img.bpp)
    IN IF RowBytes(img.width, img.bpp) % Align64 # 0 /\ img.frame_size > expected_size
       THEN [path |-> "strip"]
            @@ memcpy(align_width_to_64(img.width, img.height, img.bpp, img), expected_size)
       ELSE [path |-> "flat"]
            @@ memcpy([n \in 1..img.frame_size |-> PixAt(img, n - 1)], expected_size)

\* the buffers of the transport: rows padded to the next multiple of 64, or
\* rows with no padding
Images ==
    {[NoImage EXCEPT !.width = w, !.height = h, !.bpp = b,
                     !.stride = IF padded /\ RowBytes(w, b) % Align64 # 0
                                THEN NextAligned(RowBytes(w, b)) ELSE RowBytes(w, b),
                     !.frame_size = h * (IF padded /\ RowBytes(w, b) % Align64 # 0
                                         THEN NextAligned(RowBytes(w, b))
                                         ELSE RowBytes(w, b))] :
        w \in Widths, h \in Heights, b \in Bpps, padded \in BOOLEAN}

\* a raw buffer arrives and its frame is allocated
ImageArrive(img) ==
    /\ kind = "uvc" /\ observe = "copy" /\ ~crashed /\ cb.pc = "idle"
    /\ cb' = [IdleCb EXCEPT !.pc = "copy", !.stream = "DEPTH", !.frame = "frame",
                            !.allocated = TRUE, !.image = img]
    /\ UNCHANGED <<source, crashed>>
    /\ CbFrame

\* the payload is copied into the frame; a copy that reads past the end of
\* its source stops the process or goes on with the bytes it found
CopyPayload(ub) ==
    /\ kind = "uvc" /\ observe = "copy" /\ ~crashed /\ cb.pc = "copy"
    /\ LET r == copy_payload(cb.image)
       IN /\ crashed' = (r.overrun /\ ub = "crash")
          /\ cb' = [cb EXCEPT !.pc = "done", !.copied = TRUE,
                              !.image.path = r.path, !.image.data = r.data]
    /\ UNCHANGED <<source>>
    /\ CbFrame

InitCopy ==
    /\ kind = "uvc"
    /\ xus = NumXus
    /\ observe = "copy"
    /\ InitCommon

NextCopy ==
    \/ \E img \in Images : ImageArrive(img)
    \/ \E ub \in UbOutcomes : CopyPayload(ub)
    \/ CbReturn

\* the payload copy of the uvc callback over padded and plain buffers
SpecCopy == InitCopy /\ [][NextCopy]_vars

\* the bytes of the image in the transport's buffer: of each row the first
\* width * bpp / 8
UnpaddedRows(img) ==
    LET rb == RowBytes(img.width, img.bpp)
    IN [n \in 1..(img.height * rb) |-> <<(n - 1) \div rb, (n - 1) % rb>>]

\* C33: for a width, height and bits per pixel whose row of width * bpp / 8
\* bytes is not a multiple of 64, and a raw buffer with rows padded to the
\* next 64-byte boundary, the callback strips the padding: the frame has
\* width * height * bpp / 8 bytes, row j being the first width * bpp / 8
\* bytes of row j of the source
C33_PaddingStripped ==
    (cb.pc = "done" /\ cb.copied
        /\ RowBytes(cb.image.width, cb.image.bpp) % Align64 # 0
        /\ cb.image.stride = NextAligned(RowBytes(cb.image.width, cb.image.bpp)))
        => /\ cb.image.path = "strip"
           /\ ~crashed
           /\ Len(cb.image.data)
                  = compute_frame_expected_size(cb.image.width, cb.image.height, cb.image.bpp)
           /\ cb.image.data = UnpaddedRows(cb.image)

----------------------------------------------------------------------------
(* Threads inside the handlers: the mutexes they take and give back *)

\* the largest value a frame counter is driven to
MaxCount == 2

\* std::lock_guard lock(m): the constructor of the guard
Lock(m) == <<"lock", m>>

\* the destructor of the guard, at the end of its scope or when an exception
\* leaves it
Unlock(m) == <<"unlock", m>>

\* a scope that holds m and takes no other mutex
Guarded(m) == <<Lock(m), Unlock(m)>>

\* what thread t does next
NextStep(t) == IF thread[t].rest = <<>> THEN <<"return", "">> ELSE Head(thread[t].rest)

RaceFrame == UNCHANGED <<kind, xus, observe, lockVars, syn, sensorVars, source, powerVars,
                         cbVars, crashed, callVars, threadVars>>

\* variant: the handlers run without waiting for the mutex
lock_guard_ready_Always(locks, m) == TRUE

\* std::lock_guard<std::mutex> lock(m) can return: the mutex is free
lock_guard_ready(locks, m) == locks[m] = 0

\* the guard's constructor returns once the mutex is free
MutexLock(t) ==
    /\ observe \in {"counter", "order"}
    /\ thread[t].busy /\ NextStep(t)[1] = "lock"
    /\ lock_guard_ready(mutex, NextStep(t)[2])
    /\ mutex' = [mutex EXCEPT ![NextStep(t)[2]] = t]
    /\ thread' = [thread EXCEPT ![t].rest = Tail(@),
                                ![t].held = Append(@, NextStep(t)[2])]
    /\ UNCHANGED reader
    /\ RaceFrame

\* the guard's destructor
MutexUnlock(t) ==
    /\ observe \in {"counter", "order"}
    /\ thread[t].busy /\ NextStep(t)[1] = "unlock"
    /\ mutex' = [mutex EXCEPT ![NextStep(t)[2]] = 0]
    /\ thread' = [thread EXCEPT ![t].rest = Tail(@),
                                ![t].held = SelectSeq(@, LAMBDA m : m # NextStep(t)[2])]
    /\ UNCHANGED reader
    /\ RaceFrame

\* the handler returns to its caller
ThreadReturn(t) ==
    /\ observe \in {"counter", "order"}
    /\ thread[t].busy /\ NextStep(t)[1] = "return"
    /\ thread' = [thread EXCEPT ![t] = IdleThread]
    /\ UNCHANGED <<mutex, reader>>
    /\ RaceFrame

----------------------------------------------------------------------------
(* iio_hid_timestamp_reader: the frame counters *)

\* int index = 0; if (stream type == RS2_STREAM_GYRO) index = 1;
counter_index(stream) == IF stream = "GYRO" THEN 1 ELSE 0

\* iio_hid_timestamp_reader::get_frame_counter: ++counter[index] under _mtx
get_frame_counter(stream) ==
    <<Lock("mtx"), <<"load", stream>>, <<"store", stream>>, Unlock("mtx")>>

\* iio_hid_timestamp_reader::reset under _mtx
reader_reset == <<Lock("mtx"), <<"reset", "">>, Unlock("mtx")>>

\* a thread enters get_frame_counter with a frame of the stream, or reset
ReaderCall(t, script) ==
    /\ observe = "counter" /\ ~thread[t].busy
    /\ script # reader_reset => reader.counter[counter_index(script[2][2])] < MaxCount
    /\ thread' = [thread EXCEPT ![t] = [IdleThread EXCEPT !.busy = TRUE, !.rest = script]]
    /\ UNCHANGED <<mutex, reader>>
    /\ RaceFrame

\* ++counter[index]: the element is read
CounterLoad(t) ==
    /\ observe = "counter" /\ thread[t].busy /\ NextStep(t)[1] = "load"
    /\ thread' = [thread EXCEPT ![t].rest = Tail(@),
                                ![t].value = reader.counter[counter_index(NextStep(t)[2])]]
    /\ UNCHANGED <<mutex, reader>>
    /\ RaceFrame

\* ++counter[index]: the element is written, and its new value is what the
\* call returns
CounterStore(t) ==
    /\ observe = "counter" /\ thread[t].busy /\ NextStep(t)[1] = "store"
    /\ thread' = [thread EXCEPT ![t].rest = Tail(@), ![t].value = @ + 1]
    /\ reader' = [reader EXCEPT !.counter[counter_index(NextStep(t)[2])] = thread[t].value + 1,
                                !.returned[NextStep(t)[2]] = @ \cup {thread[t].value + 1}]
    /\ UNCHANGED mutex
    /\ RaceFrame

\* started = false; for (i < sensors) counter[i] = 0;
ReaderReset(t) ==
    /\ observe = "counter" /\ thread[t].busy /\ NextStep(t)[1] = "reset"
    /\ thread' = [thread EXCEPT ![t].rest = Tail(@)]
    /\ reader' = NewReader
    /\ UNCHANGED mutex
    /\ RaceFrame

InitReader ==
    /\ kind = "hid"
    /\ xus = 0
    /\ observe = "counter"
    /\ InitCommon

NextReader ==
    \/ \E t \in Threads :
          \E script \in {get_frame_counter(st) : st \in HidStreams} \cup {reader_reset} :
             ReaderCall(t, script)
    \/ \E t \in Threads : MutexLock(t)
    \/ \E t \in Threads : CounterLoad(t)
    \/ \E t \in Threads : CounterStore(t)
    \/ \E t \in Threads : ReaderReset(t)
    \/ \E t \in Threads : MutexUnlock(t)
    \/ \E t \in Threads : ThreadReturn(t)

\* threads calling get_frame_counter and reset of one timestamp reader
SpecReader == InitReader /\ [][NextReader]_vars

\* thread t is at the statement that gives get_frame_counter its value
Returning(t, stream) == thread[t].busy /\ NextStep(t) = <<"store", stream>>

CounterStep ==
    \A t \in Threads :
       /\ \A st \in HidStreams :
             (Returning(t, st) /\ thread'[t] # thread[t])
                => /\ thread'[t].value = Cardinality(reader.returned[st]) + 1
                   /\ thread'[t].value \notin reader.returned[st]
                   /\ \A other \in HidStreams \ {st} :
                         /\ reader'.counter[counter_index(other)]
                               = reader.counter[counter_index(other)]
                         /\ reader'.returned[other] = reader.returned[other]
       /\ (thread[t].busy /\ NextStep(t)[1] = "reset" /\ thread'[t] # thread[t])
             => \A st \in HidStreams :
                   reader'.counter[counter_index(st)] = 0 /\ reader'.returned[st] = {}

\* C34: between two resets get_frame_counter returns 1, 2, 3, ... to the
\* successive calls on a stream, also when the calls are concurrent: each
\* value is one more than the number of values the stream was given since
\* the reset and none is repeated; the other streams' counters stay as they
\* are, and after reset() the next value of every stream is 1
C34_FrameCounterSequence == [][CounterStep]_vars

\* two threads inside get_frame_counter of the two streams, one waiting for
\* the mutex, after both streams were counted up and reset
C34_Witness ==
    /\ \E t, u \in Threads :
          /\ Returning(t, "GYRO") /\ thread[t].value = 1
          /\ thread[u].busy /\ NextStep(u) = Lock("mtx") /\ thread[u].rest[2][2] = "ACCEL"
    /\ reader.returned["ACCEL"] = {1}
    /\ reader.returned["GYRO"] = {1}

----------------------------------------------------------------------------
(* The order of the mutexes in the handlers of a synthetic sensor and its raw sensor *)

Ops == {"open", "close", "start", "stop"}

\* the scope of std::lock_guard<std::mutex> lock(_configure_lock), the first
\* statement of the raw sensor's handlers
Raw(body) == <<Lock("configure_lock")>> \o body \o <<Unlock("configure_lock")>>

\* the scope of std::lock_guard<std::mutex> lock(_synthetic_configure_lock)
Syn(body) == <<Lock("synthetic_configure_lock")>> \o body
                \o <<Unlock("synthetic_configure_lock")>>

\* the mutexes a handler of the raw sensor takes, for each way it can end:
\* acquire_power and release_power take _power_lock, frame_source::init,
\* reset and set_callback take _callback_mutex, set_active_streams takes
\* _active_profile_mutex, the reset of the hid timestamp reader takes _mtx;
\* ok tells whether the handler returns or throws
raw_scripts(k, op) ==
    {[ok |-> FALSE, locks |-> Raw(<<>>)]} \cup
    CASE k = "uvc" /\ op = "open" ->
           {[ok |-> FALSE, locks |-> Raw(Guarded("power_lock"))],
            [ok |-> FALSE, locks |-> Raw(Guarded("power_lock") \o Guarded("callback_mutex")
                                            \o Guarded("power_lock"))],
            [ok |-> FALSE, locks |-> Raw(Guarded("power_lock") \o Guarded("callback_mutex")
                                            \o Guarded("callback_mutex")
                                            \o Guarded("power_lock"))],
            [ok |-> TRUE, locks |-> Raw(Guarded("power_lock") \o Guarded("callback_mutex")
                                           \o Guarded("active_profile_mutex"))]}
      [] k = "uvc" /\ op = "close" ->
           {[ok |-> TRUE, locks |-> Raw(Guarded("callback_mutex") \o Guarded("power_lock")
                                           \o Guarded("active_profile_mutex"))]}
      [] k = "uvc" /\ op = "start" ->
           {[ok |-> TRUE, locks |-> Raw(Guarded("callback_mutex"))],
            [ok |-> FALSE, locks |-> Raw(Guarded("callback_mutex"))]}
      [] k = "uvc" /\ op = "stop" ->
           {[ok |-> TRUE, locks |-> Raw(<<>>)]}
      [] k = "hid" /\ op \in {"open", "close"} ->
           {[ok |-> TRUE, locks |-> Raw(Guarded("active_profile_mutex"))]}
      [] k = "hid" /\ op = "start" ->
           {[ok |-> TRUE, locks |-> Raw(Guarded("callback_mutex") \o Guarded("callback_mutex"))],
            [ok |-> FALSE, locks |-> Raw(Guarded("callback_mutex") \o Guarded("callback_mutex"))]}
      [] k = "hid" /\ op = "stop" ->
           {[ok |-> TRUE, locks |-> Raw(Guarded("callback_mutex") \o Guarded("mtx"))]}

\* variant: the synthetic handlers enter the raw sensor's handler first and
\* take their own mutex inside it
synthetic_scripts_RawFirst(k, op) ==
    {Raw(Syn(<<>>))}

\* the mutexes a handler of the synthetic sensor takes: its own, then those
\* of the raw sensor's handler it calls, then in open and close that of
\* set_active_streams when the raw handler returned
synthetic_scripts(k, op) ==
    {Syn(r.locks \o (IF r.ok /\ op \in {"open", "close"}
                     THEN Guarded("synthetic_active_profile_mutex") ELSE <<>>)) :
        r \in raw_scripts(k, op)}
    \cup (IF op = "open" THEN {Syn(<<>>)} ELSE {})

\* the mutexes the frame callback takes on the transport's thread: none in
\* the uvc callback and in frame_source::invoke_callback; the hid callback
\* asks the timestamp reader for the timestamp and the counter
callback_script(k) ==
    IF k = "hid" THEN Guarded("mtx") \o Guarded("mtx") ELSE <<>>

\* a thread calls open, close, start or stop of the synthetic sensor or of
\* its raw sensor, or the transport delivers a frame on it
HandlerCall(t, script) ==
    /\ observe = "order" /\ ~thread[t].busy
    /\ thread' = [thread EXCEPT ![t] = [IdleThread EXCEPT !.busy = TRUE, !.rest = script]]
    /\ UNCHANGED <<mutex, reader>>
    /\ RaceFrame

InitOrder ==
    /\ kind \in {"uvc", "hid"}
    /\ xus = (IF kind = "uvc" THEN NumXus ELSE 0)
    /\ observe = "order"
    /\ InitCommon

NextOrder ==
    \/ \E t \in Threads : \E op \in Ops :
          \E script \in synthetic_scripts(kind, op) : HandlerCall(t, script)
    \/ \E t \in Threads : \E op \in Ops :
          \E r \in raw_scripts(kind, op) : HandlerCall(t, r.locks)
    \/ \E t \in Threads : HandlerCall(t, callback_script(kind))
    \/ \E t \in Threads : MutexLock(t)
    \/ \E t \in Threads : MutexUnlock(t)
    \/ \E t \in Threads : ThreadReturn(t)

\* threads in the handlers of the synthetic and the raw sensor and in frame
\* callbacks
SpecOrder == InitOrder /\ [][NextOrder]_vars

\* a thread inside a handler keeps running, and a thread that waits for a
\* mutex gets it once it is given back often enough; callers need not call
SpecOrderLive ==
    /\ SpecOrder
    /\ \A t \in Threads :
          /\ WF_vars(MutexUnlock(t))
          /\ WF_vars(ThreadReturn(t))
          /\ SF_vars(MutexLock(t))

\* the place of a mutex in the order
Rank(m) ==
    CASE m = "synthetic_configure_lock" -> 1
      [] m = "configure_lock" -> 2
      [] OTHER -> 3

\* every thread holds its mutexes in the order of their places
LockOrder ==
    \A t \in Threads :
       \A a, b \in 1..Len(thread[t].held) :
          a < b => Rank(thread[t].held[a]) < Rank(thread[t].held[b])

\* a thread waits for a mutex that another thread holds
Waiting(t) ==
    thread[t].busy /\ NextStep(t)[1] = "lock" /\ mutex[NextStep(t)[2]] # 0

\* when threads are inside handlers, one of them can take its next step
NoDeadlock == (\E t \in Threads : thread[t].busy) => (\E t \in Threads : thread[t].busy /\ ~Waiting(t))

----
(* The configuration lock of several raw sensor instances *)

\* the mutex an instance's handlers lock: its own data member _configure_lock
configure_lock_of(i) == i

\* a thread calls open / close / start / stop of instance i
ConfigureCall(t, i, op) ==
    /\ observe = "lock" /\ caller[t].pc = "idle"
    /\ caller' = [caller EXCEPT ![t] = [pc |-> "lock", sensor |-> i, op |-> op]]
    /\ UNCHANGED <<kind, xus, observe, syn, raceVars, configure_lock, sensorVars, source, powerVars,
                   cbVars, crashed, callVars, threadVars>>

\* std::lock_guard<std::mutex> lock(_configure_lock), the first statement
ConfigureLock(t) ==
    /\ observe = "lock" /\ caller[t].pc = "lock"
    /\ lock_guard_ready(configure_lock, configure_lock_of(caller[t].sensor))
    /\ configure_lock' = [configure_lock EXCEPT ![configure_lock_of(caller[t].sensor)] = t]
    /\ caller' = [caller EXCEPT ![t].pc = "body"]
    /\ UNCHANGED <<kind, xus, observe, syn, raceVars, sensorVars, source, powerVars, cbVars,
                   crashed, callVars, threadVars>>

\* the handler returns or throws: the lock_guard's destructor unlocks
ConfigureUnlock(t) ==
    /\ observe = "lock" /\ caller[t].pc = "body"
    /\ configure_lock' = [configure_lock EXCEPT ![configure_lock_of(caller[t].sensor)] = 0]
    /\ caller' = [caller EXCEPT ![t] = IdleCaller]
    /\ UNCHANGED <<kind, xus, observe, syn, raceVars, sensorVars, source, powerVars, cbVars,
                   crashed, callVars, threadVars>>

InitLock ==
    /\ kind \in {"uvc", "hid"}
    /\ xus = (IF kind = "uvc" THEN NumXus ELSE 0)
    /\ observe = "lock"
    /\ InitCommon

NextLock ==
    \/ \E t \in Threads : \E i \in Sensors : \E op \in ConfigureOps : ConfigureCall(t, i, op)
    \/ \E t \in Threads : ConfigureLock(t)
    \/ \E t \in Threads : ConfigureUnlock(t)

\* threads calling the handlers of several instances
SpecLock == InitLock /\ [][NextLock]_vars

\* the queue-size option set and queried between the configuration calls
InitOption ==
    /\ kind \in {"uvc", "hid"}
    /\ xus = (IF kind = "uvc" THEN NumXus ELSE 0)
    /\ observe = "option"
    /\ InitCommon

NextOption ==
    \/ \E v \in QueueValues : SetQueueSize(v)
    \/ QueryQueueSize
    \/ ConfigNext
    \/ Return

SpecOption == InitOption /\ [][NextOption]_vars

----------------------------------------------------------------------------
(* Properties of the call-sequence state machine, checked under Spec *)

\* a step in which an API call entered with the handler idle returns or throws
CallReturns == config_pc = "idle" /\ lastCall = NoCall /\ lastCall' # NoCall

\* the transitions the state machine does not have
IllegalIn(op, pre) ==
    CASE op = "open" -> pre # "Closed"
      [] op = "close" -> pre # "Opened"
      [] op = "start" -> pre # "Opened"
      [] op = "stop" -> pre # "Streaming"
      [] OTHER -> FALSE

\* C1: open while Opened or Streaming, start while Streaming or Closed, stop while
\* not Streaming and close while Streaming or Closed raise the wrong-API-call-sequence
\* error and leave the opened flag, the streaming flag, the active streams, the
\* installed frame callback, the committed profiles and the power reference count
\* as they were.
C1_IllegalCallRejected ==
    [][(CallReturns /\ IllegalIn(lastCall'.op, PreState)) =>
          /\ lastCall'.result = SeqErr
          /\ is_opened' = is_opened
          /\ is_streaming' = is_streaming
          /\ active_profiles' = active_profiles
          /\ source'.callback = source.callback
          /\ internal_config' = internal_config
          /\ configured_profiles' = configured_profiles
          /\ has_power' = has_power
          /\ user_count' = user_count]_vars

\* an open() was refused while the sensor streams with a callback installed
C1_Witness ==
    /\ lastCall.op = "open" /\ lastCall.pre = "Streaming" /\ lastCall.result = SeqErr
    /\ is_streaming /\ is_opened
    /\ source.callback # "null"
    /\ active_profiles # <<>>

FullyReset ==
    /\ ~is_opened
    /\ ~is_streaming
    /\ active_profiles = <<>>
    /\ SourceIsReset(source)
    /\ ~has_power
    /\ user_count = 0

\* C2: a close() that ends open -> close or open -> start -> stop -> close, each
\* call having returned without error since the sensor was Closed, leaves the
\* sensor not opened, not streaming, with no active streams, with the frame
\* source reset and with the power token released.
C2_SequenceLeavesReset ==
    (/\ lastCall.op = "close"
     /\ lastCall.result = "ok"
     /\ lastCall.bracket \in {<<"open">>, <<"open", "start", "stop">>})
    => FullyReset

\* C3: the streaming flag is never true while the opened flag is false.
C3_StreamingImpliesOpened == is_streaming => is_opened

\* a start() whose transport call threw has left the sensor Streaming
C3_Witness ==
    /\ lastCall.op = "start" /\ lastCall.result = "transport_error"
    /\ is_streaming /\ is_opened

HasDuplicateStream(req) ==
    \E i, j \in DOMAIN req : i < j /\ req[i].stream = req[j].stream

GyroAccelRatesDiffer(req) ==
    \E i, j \in DOMAIN req :
        req[i].stream = "GYRO" /\ req[j].stream = "ACCEL" /\ req[i].fps # req[j].fps

PowerOnFailed(log) ==
    HasEvent(log, "set_power_state_D0_failed") \/ HasEvent(log, "init_xu_failed")

----------------------------------------------------------------------------
(* Properties of frame production, checked under SpecFrames *)

AllocStep == cb.pc = "alloc" /\ cb'.pc # "alloc"

C6_NotStreamingDropped ==
    [][/\ (cb.pc = "idle" /\ cb'.pc # "idle" /\ ~is_streaming) =>
            /\ cb' = Drop("dropped_not_streaming")
            /\ source' = source
            /\ crashed' = crashed
       /\ (cb.outcome = "dropped_not_streaming" /\ cb' # cb) =>
            /\ cb' = IdleCb
            /\ source' = source
            /\ crashed' = crashed]_vars

\* a raw callback was dropped on an opened sensor that does not stream
C6_Witness ==
    /\ cb.pc = "done" /\ cb.outcome = "dropped_not_streaming"
    /\ is_opened /\ ~is_streaming /\ dev_callbacks_on
    /\ cb.frame = "none" /\ cb.continuation = 0

\* C7: when the allocation returns a null frame the callback drops the frame:
\* no payload byte is written through the null frame, the user callback is not
\* invoked, and the callback ends without an error.
C7_NullAllocationDropped ==
    /\ ~cb.wrote_null
    /\ cb.outcome = "dropped_alloc" =>
          /\ cb.pc = "done"
          /\ cb.frame = "none"
          /\ ~cb.handler_threw

----------------------------------------------------------------------------
(* Properties of the power reference counter, checked under SpecPower *)

HeldTokens ==
    Cardinality({t \in Threads : tok[t] = "held"}) + (IF has_power THEN 1 ELSE 0)

\* C8: while no transport call has failed since the count last left 0,
\* set_power_state(D0) has been issued exactly once for the tokens now held and
\* set_power_state(D3) not yet; once all of them are released D0 and D3 have each
\* been issued exactly once and the count is 0. The count is the number of
\* tokens held.
C8_OnePowerOnOnePowerOff ==
    /\ user_count = HeldTokens
    /\ period.fail = "none" =>
          /\ user_count >= 1 => (period.d0 = 1 /\ period.d3 = 0)
          /\ user_count = 0 => (period.d0 = period.d3 /\ period.d0 <= 1)
          /\ (user_count = 0 /\ period.peak >= 1) => (period.d0 = 1 /\ period.d3 = 1)

\* several tokens were held at once and all have been released
C8_Witness ==
    /\ period.peak >= 2 /\ period.fail = "none"
    /\ user_count = 0 /\ HeldTokens = 0
    /\ period.d0 = 1 /\ period.d3 = 1

\* C9: an acquire that throws during the power-on leaves the reference count at
\* its value before the call (0), and every acquire that finds the count at 0
\* issues set_power_state(D0), also after one that threw.
C9_FailedAcquireRolledBack ==
    [][\A t \in Threads :
         /\ (tok[t] = "none" /\ tok'[t] = "raised") =>
               (user_count = 0 /\ user_count' = user_count /\ period'.fail \in {"d0", "xu"})
         /\ (tok[t] # "held" /\ tok'[t] = "held" /\ user_count = 0) =>
               (period'.d0 = 1 /\ user_count' = 1)
         /\ (tok[t] # "held" /\ tok'[t] # tok[t] /\ user_count = 0) =>
               period'.d0 = 1]_vars

\* a thread whose acquire threw holds nothing, and a later acquire has powered
\* the device on
C9_Witness ==
    \E t1, t2 \in Threads :
        /\ tok[t1] = "raised" /\ tok[t2] = "held"
        /\ user_count = 1
        /\ period.d0 = 1 /\ period.fail = "none"
        /\ dev_power = "D0"

\* C10: provided no set_power_state(D3) has failed, the power state last set on
\* the device is D0 exactly when the reference count is at least 1, and D3 when
\* it is 0, also after an acquire that failed part-way.
C10_PowerFollowsCount ==
    ~period.d3failed => (dev_power = "D0" <=> user_count >= 1)

----------------------------------------------------------------------------
(* Error paths of open and close, checked under Spec *)

\* C11: a set_power_state(D3) that throws inside release_power is not
\* propagated: the call that released the token finds the reference count at 0
\* and the token gone, and a close() in which it happened still returns
\* normally with the sensor Closed and the active streams empty.
C11_PowerOffFailureSwallowed ==
    HasEvent(lastCall.log, "set_power_state_D3_failed") =>
        /\ user_count = 0 /\ ~has_power
        /\ lastCall.op = "close" =>
              /\ lastCall.result = "ok"
              /\ ~is_opened /\ ~is_streaming
              /\ active_profiles = <<>>

\* close() has returned normally although the device refused to power off
C11_Witness ==
    /\ lastCall.op = "close" /\ lastCall.result = "ok"
    /\ HasEvent(lastCall.log, "set_power_state_D3_failed")
    /\ lastCall.pre = "Opened"
    /\ ~is_opened /\ active_profiles = <<>> /\ user_count = 0
    /\ dev_power = "D0"

\* the tokens held by init_stream_profiles and the other scopes, without the
\* sensor's own
ScopeTokens == Cardinality({t \in Threads : tok[t] = "held"})

\* C12: the sensor holds a power token exactly while it is Opened or
\* Streaming: the reference count is then at least 1, and whenever the sensor
\* is Closed (after close, after an open that failed at the power-on, at the
\* validation, at a commit or at stream_on) the count is what the scopes of
\* init_stream_profiles still hold, a scope left by return or by exception
\* holding nothing.
C12_TokenHeldForBracket ==
    /\ (is_opened \/ is_streaming) => (has_power /\ user_count >= 1)
    /\ ~is_opened => ~has_power
    /\ user_count = ScopeTokens + (IF is_opened THEN 1 ELSE 0)

\* the sensor streams while one init_stream_profiles holds a token and another
\* has thrown
C12_Witness ==
    /\ is_opened /\ is_streaming /\ has_power
    /\ user_count = 2
    /\ \E t1, t2 \in Threads : tok[t1] = "held" /\ tok[t2] = "raised"

\* C13: when probe_and_commit throws for the k-th requested profile, each of
\* the k-1 profiles committed before it is closed on the transport, open()
\* throws the error of probe_and_commit, and the sensor is Closed with no
\* active streams and the token of this open released.
C13_CommitFailureRolledBack ==
    (lastCall.op = "open" /\ HasEvent(lastCall.log, "commit_failed")) =>
        /\ \A i \in DOMAIN lastCall.log :
              lastCall.log[i].e = "commit" =>
                 \E j \in DOMAIN lastCall.log :
                    j > i /\ lastCall.log[j] = EvP("close", lastCall.log[i].p)
        /\ lastCall.result = "transport_error"
        /\ ~is_opened /\ ~is_streaming /\ active_profiles = <<>>
        /\ ~has_power /\ user_count = 0

CloseEvents == {"close", "close_failed"}
PowerOffEvents == {"set_power_state_D3", "set_power_state_D3_failed"}

\* C14: a uvc_sensor::close that passed its call-sequence check attempts the
\* close of every committed profile, also after one of them threw, and returns
\* with the frame source flushed and reset, the timestamp reader reset, the
\* time-diff keeper disabled, the token released, the sensor Closed and no
\* active streams; the token is released after every close was attempted.
C14_CloseBestEffort ==
    (kind = "uvc" /\ lastCall.op = "close" /\ lastCall.result # SeqErr) =>
        LET log == lastCall.log IN
        /\ lastCall.result = "ok"
        /\ \A q \in Range(internal_config) :
              \E i \in DOMAIN log : log[i].p = q /\ log[i].e \in CloseEvents
        /\ \A e \in {"source_flush", "source_reset", "timestamp_reset", "time_diff_off"} :
              HasEvent(log, e)
        /\ \E j \in DOMAIN log : log[j].e \in PowerOffEvents
        /\ \A i, j \in DOMAIN log :
              (log[i].e \in CloseEvents /\ log[j].e \in PowerOffEvents) => i < j
        /\ SourceIsReset(source)
        /\ ~is_opened /\ ~is_streaming /\ active_profiles = <<>>
        /\ ~has_power /\ user_count = 0

\* close() went on to the second profile after the close of the first threw
C14_Witness ==
    /\ kind = "uvc" /\ lastCall.op = "close" /\ lastCall.result = "ok"
    /\ Len(internal_config) = 2
    /\ lastCall.log[1] = EvP("close_failed", internal_config[1])
    /\ lastCall.log[2] = EvP("close", internal_config[2])
    /\ ~is_opened /\ user_count = 0

----------------------------------------------------------------------------
(* Ordering of start and stop against the transport *)

\* C15: start() has set the Streaming state and installed the user callback
\* by the time the transport is told to begin delivering callbacks, so that no
\* raw callback arriving once the transport was started (and before a stop has
\* begun) is dropped for finding the sensor not Streaming.
C15_StreamingBeforeTransportStart ==
    [][/\ (~dev_callbacks_on /\ dev_callbacks_on') =>
            (is_streaming' /\ source'.callback # "null")
       /\ (cb.pc = "idle" /\ cb'.pc # "idle" /\ config_pc # "uvc_stop") =>
            cb'.outcome # "dropped_not_streaming"]_vars

TransportStopEvents == {"stop_callbacks", "stop_capture"}

\* C16: in a stop() that returns normally the streaming flag is cleared
\* before the transport is told to stop, the timestamp reader is reset after
\* the transport was told to stop, and the notification of the observers with
\* 'false' comes last.
C16_StopOrder ==
    (lastCall.op = "stop" /\ lastCall.result = "ok") =>
        LET log == lastCall.log IN
        /\ \E i, j, k \in DOMAIN log :
              /\ log[i].e = "streaming_false"
              /\ log[j].e \in TransportStopEvents
              /\ log[k].e = "timestamp_reset"
              /\ i < j /\ j < k
        /\ log[Len(log)].e = "notify_false"

----------------------------------------------------------------------------
(* Raw callbacks in flight while the configuration thread stops and closes *)

\* C17: a raw callback that passed the streaming check keeps to live objects
\* whatever stop() and close() do meanwhile on the configuration thread: it
\* never allocates from a frame pool that reset() has already torn down.
C17_InFlightKeepsToLivePools == ~cb.torn_pool

----------------------------------------------------------------------------
(* Delivery of a frame: continuation, user callback, ownership *)

\* C18: the UVC callback invokes the continuation of the transport buffer
\* only once the payload copy into the allocated frame is complete, and has
\* invoked it (once) before it invokes the user callback.
C18_ContinuationBetweenCopyAndCallback ==
    [][/\ cb'.continuation > cb.continuation =>
            (cb.copied /\ cb.allocated /\ cb.outcome = "none" /\ cb.continuation = 0)
       /\ (kind = "uvc" /\ cb.pc = "invoke" /\ cb'.pc = "done" /\ cb'.handed) =>
            (cb.copied /\ cb.continuation = 1)]_vars

\* a UVC frame was delivered to the user callback
C18_Witness ==
    /\ kind = "uvc" /\ cb.pc = "done" /\ cb.outcome = "delivered"
    /\ cb.copied /\ cb.continuation = 1
    /\ \E t \in FrameTypes : source.held[t] = 1

\* C19: an exception thrown by the user frame callback does not leave
\* invoke_callback: the frame had been taken out of the holder, the raw
\* callback ends as a delivery and returns to the transport, and the callback
\* thread is left able to process the next frame.
C19_HandlerExceptionContained ==
    [][/\ (cb.pc = "invoke" /\ cb'.handler_threw) =>
            /\ cb'.pc = "done" /\ cb'.outcome = "delivered"
            /\ cb'.handed /\ ~cb'.released
            /\ ~crashed'
       /\ (cb.handler_threw /\ cb' # cb) => (cb' = IdleCb /\ ~crashed')]_vars

\* the user callback threw and the raw callback ended as a delivery
C19_Witness ==
    /\ cb.pc = "done" /\ cb.handler_threw /\ cb.outcome = "delivered"
    /\ cb.handed /\ ~crashed

\* C20: a frame that was allocated is disposed of exactly once: while the raw
\* callback works on it neither has happened, and when the raw callback is done
\* the frame was either handed to the user callback or released by its holder,
\* not both and not neither. The pools never count more frames in the
\* application's hands than they have live.
C20_FrameDisposedOnce ==
    /\ (cb.allocated /\ cb.pc # "done") => (~cb.handed /\ ~cb.released)
    /\ (cb.allocated /\ cb.pc = "done") => (cb.handed # cb.released)
    /\ ~cb.allocated => (~cb.handed /\ ~cb.released)
    /\ \A t \in FrameTypes : 0 <= source.held[t] /\ source.held[t] <= source.published[t]

\* a frame found no callback installed and went back to its pool
C20_Witness ==
    /\ cb.pc = "done" /\ cb.allocated /\ cb.released /\ ~cb.handed
    /\ cb.outcome = "released"

----------------------------------------------------------------------------
(* The frames-queue-size option, checked under SpecOption *)

OptionReturns(op) == lastCall = NoCall /\ lastCall'.op = op

\* C21: a set with a value outside [0, 32] (or off the step 1) raises an
\* invalid-value error and leaves the published-queue-size as it was; a set
\* with a valid value returns normally and every query from then on returns
\* that value: a query returns the stored size, and the stored size changes
\* only in a set that returned normally.
C21_QueueSizeOption ==
    [][/\ OptionReturns("set_option") =>
            LET v == lastCall'.req[1]
                in_range == /\ v >= FloatOf(QueueRangeMin) /\ v <= FloatOf(QueueRangeMax)
                            /\ v % FloatOf(QueueRangeStep) = 0
            IN IF in_range
               THEN /\ lastCall'.result = "ok"
                    /\ frame_queue_size_query(source'.max_publish_list_size) = v
               ELSE /\ lastCall'.result = "invalid_value"
                    /\ source'.max_publish_list_size = source.max_publish_list_size
       /\ OptionReturns("query_option") =>
            /\ lastCall'.req[1] = FloatOf(source.max_publish_list_size)
            /\ source' = source
       /\ source'.max_publish_list_size # source.max_publish_list_size =>
            (OptionReturns("set_option") /\ lastCall'.result = "ok")]_vars

\* a set above the range was refused with the size at a value set before
C21_Witness ==
    /\ lastCall.op = "set_option" /\ lastCall.result = "invalid_value"
    /\ lastCall.req[1] > FloatOf(QueueRangeMax)
    /\ source.max_publish_list_size = 1

----------------------------------------------------------------------------
(* The configuration lock, checked under SpecLock *)

InBody(i) == {t \in Threads : caller[t].pc = "body" /\ caller[t].sensor = i}

\* C22: on one instance at most one thread is inside the body of open,
\* close, start or stop; a thread that called a handler of an instance waits
\* only while another thread is inside a handler of that same instance.
C22_OneConfigurationAtATime ==
    /\ \A i \in Sensors : Cardinality(InBody(i)) <= 1
    /\ \A t \in Threads :
          (caller[t].pc = "lock" /\ InBody(caller[t].sensor) = {}) =>
             lock_guard_ready(configure_lock, configure_lock_of(caller[t].sensor))

\* two threads are inside handlers of two instances at once
C22_Witness ==
    \E t1, t2 \in Threads :
        /\ caller[t1].pc = "body" /\ caller[t2].pc = "body"
        /\ caller[t1].sensor # caller[t2].sensor

====
